---- MODULE Spec2Model ----
(***************************************************************************)
(* A model of rit (231220075/rit): the object store, the index, the refs,  *)
(* the workspace, and the commands add / update-index / rm / read-tree /   *)
(* commit / checkout / merge acting on them.                               *)
(*                                                                         *)
(* Conventions.                                                            *)
(*  - A path is a sequence of segments: "d/b" is <<"d","b">>.              *)
(*  - A byte buffer is a sequence of integers.  A text file is the         *)
(*    sequence of its lines; the conflict-marker lines are negative.       *)
(*  - SHA-1 is modelled as a collision-free digest: the digest of a        *)
(*    buffer is the buffer itself, so two ids are equal exactly when the   *)
(*    hashed envelopes are equal.                                          *)
(*  - A command is one atomic action; it is computed as a chain of file    *)
(*    system effects on a repository record, and an error keeps every      *)
(*    effect made before it, as the process does.                          *)
(***************************************************************************)
EXTENDS Integers, Sequences, FiniteSets, TLC

VARIABLES objects, refs, HEAD, index, ws, dirs, last, ixfile, codec

vars == <<objects, refs, HEAD, index, ws, dirs, last, ixfile, codec>>

(* ------------------------------ bounds --------------------------------- *)
\* text contents the user writes are the one-line files <<1>> .. <<MaxContent>>
MaxContent == 2
\* `commit` is disabled once the store holds this many commit objects
MaxCommits == 2
\* `merge` is disabled once the store holds this many commit objects
MaxHistory == 5
\* update-index stops appending once the index holds this many entries
MaxIndexLen == 2

Branches == {"master", "dev"}
Files == {<<"a">>, <<"c">>, <<"d", "b">>}
\* the files the user edits when the repository is explored from `rit init`
EditFiles == {<<"a">>, <<"d", "b">>}
Contents == {<<k>> : k \in 1..MaxContent}

(* --------------------------- small helpers ----------------------------- *)
RECURSIVE Flatten(_)
Flatten(ss) == IF ss = <<>> THEN <<>> ELSE Head(ss) \o Flatten(Tail(ss))

SeqToSet(s) == {s[i] : i \in 1..Len(s)}

IsPrefix(p, q) == Len(p) <= Len(q) /\ SubSeq(q, 1, Len(p)) = p

\* the bytes of the one-letter segment names used; any other segment (the
\* "refs" and "heads" of a ref name) sorts after them
SegCode(s) ==
    CASE s = "a" -> 97 [] s = "b" -> 98 [] s = "c" -> 99 [] s = "d" -> 100 [] OTHER -> 122

RECURSIVE PathLess(_, _)
\* std::path::Path ordering: component-wise lexicographic
PathLess(p, q) ==
    IF q = <<>> THEN FALSE
    ELSE IF p = <<>> THEN TRUE
    ELSE IF SegCode(Head(p)) # SegCode(Head(q)) THEN SegCode(Head(p)) < SegCode(Head(q))
    ELSE PathLess(Tail(p), Tail(q))

RECURSIVE PathBytes(_)
\* "d/b" as bytes: the segments joined with '/'
PathBytes(p) ==
    IF p = <<>> THEN <<>>
    ELSE IF Len(p) = 1 THEN <<SegCode(p[1])>>
    ELSE <<SegCode(p[1]), 47>> \o PathBytes(Tail(p))

(* ------------------------------ FileMode ------------------------------- *)
Exec == 33261      \* 0o100755
Blob == 33188      \* 0o100644
Tree == 16384      \* 0o040000
Commit == 57344    \* 0o160000
Symbolic == 40960  \* 0o120000

FileMode == {Exec, Blob, Tree, Commit, Symbolic}

RECURSIVE OctDigits(_)
\* format!("{:o}", n) for n > 0, as a sequence of digits
OctDigits(n) == IF n = 0 THEN <<>> ELSE OctDigits(n \div 8) \o <<n % 8>>

\* From<FileMode> for &str: the token Tree::into writes for a mode
FileModeStr(mode) ==
    CASE mode = Exec -> <<1, 0, 0, 7, 5, 5>>
      [] mode = Blob -> <<1, 0, 0, 6, 4, 4>>
      [] mode = Tree -> <<0, 4, 0, 0, 0, 0>>
      [] mode = Commit -> <<1, 6, 0, 0, 0, 0>>
      [] mode = Symbolic -> <<1, 2, 0, 0, 0, 0>>

\* TryFrom<&[u8]> for FileMode: 0 stands for Err(invalid_filemode)
FileModeFromBytes(tok) ==
    CASE tok = <<1, 0, 0, 7, 5, 5>> -> Exec
      [] tok = <<1, 0, 0, 6, 4, 4>> -> Blob
      [] tok = <<4, 0, 0, 0, 0>> -> Tree
      [] tok = <<1, 6, 0, 0, 0, 0>> -> Commit
      [] tok = <<1, 2, 0, 0, 0, 0>> -> Symbolic
      [] OTHER -> 0

(* ----------------------- hashing and the envelope ---------------------- *)
\* a collision-free digest: the hashed bytes stand for their digest
sha_hash(data) == data

\* hash.rs: the digest of "blob {len}\0" + bytes (66 is 'b', the tag written)
hash_object(bytes) == sha_hash(<<66, Len(bytes)>> \o bytes)

NoHash == <<>>

\* stored objects: the decompressed file, kept field by field
BlobObj(lines) ==
    [kind |-> "blob", lines |-> lines, entries |-> <<>>,
     tree_hash |-> NoHash, parent_hash |-> <<>>, message |-> 0]
TreeObj(entries) ==
    [kind |-> "tree", lines |-> <<>>, entries |-> entries,
     tree_hash |-> NoHash, parent_hash |-> <<>>, message |-> 0]
CommitObj(tree_hash, parent_hash, message) ==
    [kind |-> "commit", lines |-> <<>>, entries |-> <<>>,
     tree_hash |-> tree_hash, parent_hash |-> parent_hash, message |-> message]

\* one tree record as bytes: "{mode} {path}\0" + id
EntryBytes(e) == e.tok \o <<32>> \o PathBytes(e.path) \o <<0, Len(e.hash)>> \o e.hash

TreeBytes(entries) == Flatten([i \in 1..Len(entries) |-> EntryBytes(entries[i])])

\* From<Commit> for Vec<u8>: tree line, parent lines, (constant) author and
\* committer, blank line, message
CommitBytes(tree_hash, parent_hash, message) ==
    <<-10, Len(tree_hash)>> \o tree_hash
    \o Flatten([i \in 1..Len(parent_hash) |-> <<-11, Len(parent_hash[i])>> \o parent_hash[i]])
    \o <<-12, message>>


(* --------------------------- the repository ---------------------------- *)
NoRef == <<>>
NoFile == [exists |-> FALSE, bytes |-> <<>>, exec |-> FALSE]

\* the repository as one record, for the commands to thread through
Cur == [objects |-> objects, refs |-> refs, HEAD |-> HEAD, index |-> index,
        ws |-> ws, dirs |-> dirs]

\* the outcome of a command: the repository it leaves, its result ("ok" or
\* the GitError variant), the branch of the code it took, and the paths its
\* error message names
Ok(R) == [r |-> R, res |-> "ok", via |-> "", msg |-> <<>>]
Fail(R, e) == [r |-> R, res |-> e, via |-> "", msg |-> <<>>]
Via(o, v) == [o EXCEPT !.via = v]

Parent(p) == SubSeq(p, 1, Len(p) - 1)

\* std::fs::write: creates or truncates the file; fails when the parent
\* directory is missing; an existing file keeps its permission bits
CanWrite(R, p) == p \in Files /\ (Len(p) = 1 \/ Parent(p) \in R.dirs)
FsWrite(R, p, bytes) ==
    [R EXCEPT !.ws[p] = [exists |-> TRUE, bytes |-> bytes,
                         exec |-> IF R.ws[p].exists THEN R.ws[p].exec ELSE FALSE]]

\* std::fs::create_dir_all
create_dir_all(R, p) ==
    [R EXCEPT !.dirs = @ \cup {SubSeq(p, 1, k) : k \in 1..Len(p)}]

\* Path::exists
PathExists(R, p) == (p \in Files /\ R.ws[p].exists) \/ p \in R.dirs

(* ----------------------------- object store ---------------------------- *)
\* fs.rs write_object: hash, then write the file (an existing file is rewritten)
PutObject(objs, obj, bytes) == (hash_object(bytes) :> obj) @@ objs

write_blob(R, lines) == [R EXCEPT !.objects = PutObject(@, BlobObj(lines), lines)]

\* Tree records as read back: TryFrom<Vec<u8>> for Tree fails on a mode token
\* that FileMode does not parse
TreeDecodes(obj) == \A i \in 1..Len(obj.entries) : FileModeFromBytes(obj.entries[i].tok) # 0

\* fs.rs read_obj succeeds
ObjReadable(objs, h) ==
    /\ h \in DOMAIN objs
    /\ objs[h].kind = "tree" => TreeDecodes(objs[h])

\* fs.rs read_object::<T> succeeds
HasBlob(objs, h) == ObjReadable(objs, h) /\ objs[h].kind = "blob"
HasTree(objs, h) == ObjReadable(objs, h) /\ objs[h].kind = "tree"
HasCommit(objs, h) == ObjReadable(objs, h) /\ objs[h].kind = "commit"

\* the decoded Tree: a sequence of TreeEntry {mode, hash, path}
read_tree(objs, h) ==
    [i \in 1..Len(objs[h].entries) |->
        [mode |-> FileModeFromBytes(objs[h].entries[i].tok),
         hash |-> objs[h].entries[i].hash,
         path |-> objs[h].entries[i].path]]

\* Checkout::read_commit succeeds: the commit and its tree are both readable
HasCommitTree(objs, h) == HasCommit(objs, h) /\ HasTree(objs, objs[h].tree_hash)

(* -------------------------------- index -------------------------------- *)
NoIndex == [exists |-> FALSE, entries |-> <<>>]

\* IndexEntry::new accepts these modes and panics on any other
IndexEntryNewOk(mode) == mode \in {Blob, Exec, Symbolic, Tree}

\* Index::read_from_file on the repository's index file
IndexReadable(idx) ==
    idx.exists /\ \A i \in 1..Len(idx.entries) : IndexEntryNewOk(idx.entries[i].mode)

write_to_file(R, entries) == [R EXCEPT !.index = [exists |-> TRUE, entries |-> entries]]

Names(entries) == {entries[i].name : i \in 1..Len(entries)}

\* Index::remove_entry: retain the entries with another name
RECURSIVE remove_entry(_, _)
remove_entry(entries, name) ==
    IF entries = <<>> THEN <<>>
    ELSE IF Head(entries).name = name THEN remove_entry(Tail(entries), name)
    ELSE <<Head(entries)>> \o remove_entry(Tail(entries), name)

\* the first position holding `name`, 0 when there is none
FindName(entries, name) ==
    IF name \in Names(entries)
    THEN CHOOSE i \in 1..Len(entries) :
            entries[i].name = name /\ \A j \in 1..(i - 1) : entries[j].name # name
    ELSE 0

RemoveAt(s, i) == SubSeq(s, 1, i - 1) \o SubSeq(s, i + 1, Len(s))

(* ------------------------------- sorting ------------------------------- *)
RECURSIVE SortPaths(_)
\* the paths of a set in ascending Path order
SortPaths(S) ==
    IF S = {} THEN <<>>
    ELSE LET m == CHOOSE x \in S : \A y \in S \ {x} : PathLess(x, y)
         IN <<m>> \o SortPaths(S \ {m})


RECURSIVE Pick(_, _)
\* the elements of s at the positions of I, in order
Pick(s, I) ==
    IF I = {} THEN <<>>
    ELSE LET m == CHOOSE i \in I : \A j \in I : i <= j
         IN <<s[m]>> \o Pick(s, I \ {m})

(* ------------------------------ write-tree ----------------------------- *)
RECURSIVE build_tree_recursive(_, _)
\* WriteTree::build_tree_recursive: the tree of `entries` below `prefix`;
\* hash is its id and objs the tree objects it writes.  An entry whose name
\* does not start with `prefix` is skipped (`continue`).
build_tree_recursive(entries, prefix) ==
    LET Rel(i) ==
            IF prefix = <<>> THEN entries[i].name
            ELSE IF IsPrefix(prefix, entries[i].name)
                 THEN SubSeq(entries[i].name, Len(prefix) + 1, Len(entries[i].name))
                 ELSE <<>>
        fileIdx == {i \in 1..Len(entries) : Len(Rel(i)) = 1}
        dirIdx == {i \in 1..Len(entries) : Len(Rel(i)) > 1}
        subdirs == {Rel(i)[1] : i \in dirIdx}
        sub_entries(d) ==
            LET I == {i \in dirIdx : Rel(i)[1] = d}
            IN Pick([i \in 1..Len(entries) |-> [entries[i] EXCEPT !.name = Rel(i)]], I)
        sub(d) == build_tree_recursive(sub_entries(d), prefix \o <<d>>)
        names == {Rel(i)[1] : i \in fileIdx} \cup subdirs
        ent(n) ==
            IF n \in subdirs
            THEN [tok |-> <<4, 0, 0, 0, 0>>, path |-> <<n>>, hash |-> sub(n).hash]
            ELSE LET i == CHOOSE k \in fileIdx :
                            Rel(k) = <<n>> /\ \A j \in fileIdx : Rel(j) = <<n>> => j <= k
                 IN [tok |-> OctDigits(entries[i].mode), path |-> <<n>>,
                     hash |-> entries[i].hash]
        sorted == SortPaths({<<n>> : n \in names})
        tree == [k \in 1..Len(sorted) |-> ent(sorted[k][1])]
        h == hash_object(TreeBytes(tree))
        dom == {h} \cup UNION {DOMAIN sub(d).objs : d \in subdirs}
    IN [hash |-> h,
        objs |-> [x \in dom |->
                    IF x = h THEN TreeObj(tree)
                    ELSE sub(CHOOSE d \in subdirs : x \in DOMAIN sub(d).objs).objs[x]]]

(* --------------------------------- add --------------------------------- *)
IsFile(R, p) == p \in Files /\ R.ws[p].exists
IsDir(R, p) == p = <<>> \/ p \in R.dirs

RECURSIVE walk(_, _)
\* fs.rs walk: the files below a directory, those of its subdirectories first
walk(R, p) ==
    IF ~IsDir(R, p) THEN <<p>>
    ELSE LET subs == SortPaths({d \in R.dirs : Parent(d) = p})
             files == SortPaths({f \in Files : R.ws[f].exists /\ Parent(f) = p})
         IN Flatten([i \in 1..Len(subs) |-> walk(R, subs[i])]) \o files

\* fs.rs add_object: the entry staged for a workspace file
add_object(R, p) ==
    [mode |-> IF R.ws[p].exec THEN Exec ELSE Blob,
     hash |-> hash_object(R.ws[p].bytes),
     name |-> p]

\* Add::run
AddRun(R, args) ==
    IF R.index.exists /\ ~IndexReadable(R.index) THEN Fail(R, "panic")
    ELSE IF \E i \in 1..Len(args) : ~IsFile(R, args[i]) /\ ~IsDir(R, args[i])
    THEN Fail(R, "NotARepoFile")
    ELSE LET paths == Flatten([i \in 1..Len(args) |-> walk(R, args[i])])
             blobs == {R.ws[paths[i]].bytes : i \in 1..Len(paths)}
             objs == [x \in DOMAIN R.objects \cup {hash_object(b) : b \in blobs} |->
                        IF \E b \in blobs : hash_object(b) = x
                        THEN BlobObj(CHOOSE b \in blobs : hash_object(b) = x)
                        ELSE R.objects[x]]
             \* `index.read_from_file(..)?;` drops what it read: the entries
             \* start from Index::new()
             entries == [i \in 1..Len(paths) |-> add_object(R, paths[i])]
         IN Ok(write_to_file([R EXCEPT !.objects = objs], entries))

(* -------------------------------- commit ------------------------------- *)
\* the message of `commit -m`
MsgCommit == 1
\* "merge {branch} into this"
MsgMerge(b) == IF b = "master" THEN 2 ELSE 3

write_commit(R, tree_hash, parent_hash, message) ==
    [R EXCEPT !.objects = PutObject(@, CommitObj(tree_hash, parent_hash, message),
                                    CommitBytes(tree_hash, parent_hash, message))]

CommitId(tree_hash, parent_hash, message) ==
    hash_object(CommitBytes(tree_hash, parent_hash, message))

\* Commit::run
CommitRun(R) ==
    IF ~R.index.exists THEN Fail(R, "io")
    ELSE IF ~IndexReadable(R.index) THEN Fail(R, "panic")
    ELSE LET bt == build_tree_recursive(R.index.entries, <<>>)
             R1 == [R EXCEPT !.objects = bt.objs @@ @]
             parent == IF R.refs[R.HEAD] # NoRef THEN <<R.refs[R.HEAD]>> ELSE <<>>
             R2 == write_commit(R1, bt.hash, parent, MsgCommit)
         IN Ok([R2 EXCEPT !.refs[R.HEAD] = CommitId(bt.hash, parent, MsgCommit)])


(* ------------------------------ checkout ------------------------------- *)
RECURSIVE restore_tree(_, _, _)
\* Checkout::restore_tree: write the blobs of a tree below base_path
restore_tree(R, base_path, tree) ==
    IF tree = <<>> THEN Ok(R)
    ELSE LET entry == Head(tree)
             file_path == base_path \o entry.path
             step ==
                IF entry.mode = Blob
                THEN IF ~HasBlob(R.objects, entry.hash) THEN Fail(R, "InvalidCommand")
                     ELSE IF ~CanWrite(R, file_path) THEN Fail(R, "FailedToWriteFile")
                     ELSE Ok(FsWrite(R, file_path, R.objects[entry.hash].lines))
                ELSE IF entry.mode = Tree
                THEN LET R1 == create_dir_all(R, file_path)
                     IN IF ~HasTree(R1.objects, entry.hash) THEN Fail(R1, "InvalidCommand")
                        ELSE restore_tree(R1, file_path, read_tree(R1.objects, entry.hash))
                ELSE Fail(R, "InvalidCommand")
         IN IF step.res # "ok" THEN step ELSE restore_tree(step.r, base_path, Tail(tree))

\* Checkout::restore_workspace
restore_workspace(R, commit_hash) ==
    IF ~HasCommitTree(R.objects, commit_hash) THEN Fail(R, "InvalidCommand")
    ELSE restore_tree(R, <<>>, read_tree(R.objects, R.objects[commit_hash].tree_hash))

RECURSIVE is_workspace_modified_for_tree(_, _, _)
\* "true", "false", or the error it returns
is_workspace_modified_for_tree(R, base_path, tree) ==
    IF tree = <<>> THEN "false"
    ELSE LET entry == Head(tree)
             file_path == base_path \o entry.path
             sub == is_workspace_modified_for_tree(R, file_path, read_tree(R.objects, entry.hash))
         IN IF ~PathExists(R, file_path) THEN "true"
            ELSE IF entry.mode = Blob /\ file_path \notin Files THEN "FailedToReadFile"
            ELSE IF entry.mode = Blob /\ hash_object(R.ws[file_path].bytes) # entry.hash THEN "true"
            ELSE IF entry.mode = Tree /\ ~HasTree(R.objects, entry.hash) THEN "InvalidCommand"
            ELSE IF entry.mode = Tree /\ sub # "false" THEN sub
            ELSE is_workspace_modified_for_tree(R, base_path, Tail(tree))

RECURSIVE is_workspace_modified_from(_, _)
is_workspace_modified_from(R, entries) ==
    IF entries = <<>> THEN "false"
    ELSE LET entry == Head(entries)
             file_path == entry.name
             sub == is_workspace_modified_for_tree(R, file_path, read_tree(R.objects, entry.hash))
         IN IF ~PathExists(R, file_path) THEN "true"
            \* the content is compared for mode 0o100644 alone
            ELSE IF entry.mode = Blob /\ file_path \notin Files THEN "FailedToReadFile"
            ELSE IF entry.mode = Blob /\ hash_object(R.ws[file_path].bytes) # entry.hash THEN "true"
            ELSE IF entry.mode = Tree /\ ~HasTree(R.objects, entry.hash) THEN "InvalidCommand"
            ELSE IF entry.mode = Tree /\ sub # "false" THEN sub
            ELSE is_workspace_modified_from(R, Tail(entries))

\* Checkout::is_workspace_modified
is_workspace_modified(R) ==
    IF ~R.index.exists THEN "FailedToReadFile"
    ELSE IF ~IndexReadable(R.index) THEN "panic"
    ELSE is_workspace_modified_from(R, R.index.entries)

\* Checkout::is_index_modified: the index against the records of one tree
\* object (tree.0, not flattened)
is_index_modified(entries, tree) ==
    \/ \E i \in 1..Len(tree) :
          LET k == FindName(entries, tree[i].path)
          IN k = 0 \/ entries[k].hash # tree[i].hash
    \/ \E j \in 1..Len(entries) : entries[j].name \notin {tree[i].path : i \in 1..Len(tree)}

RECURSIVE merge_tree_into_index(_, _, _, _)
\* Checkout::merge_tree_into_index: [entries, res]
merge_tree_into_index(objs, tree, prefix, entries) ==
    IF tree = <<>> THEN [entries |-> entries, res |-> "ok"]
    ELSE LET entry == Head(tree)
             entry_path == prefix \o entry.path
             step ==
                IF entry.mode = Tree
                THEN IF ~HasTree(objs, entry.hash)
                     THEN [entries |-> entries, res |-> "InvalidCommand"]
                     ELSE merge_tree_into_index(objs, read_tree(objs, entry.hash), entry_path, entries)
                ELSE IF entry.mode = Blob
                THEN IF entry_path \in Names(entries)
                     THEN [entries |-> entries, res |-> "ok"]
                     ELSE [entries |-> Append(entries, [mode |-> entry.mode, hash |-> entry.hash,
                                                        name |-> entry_path]),
                           res |-> "ok"]
                ELSE [entries |-> entries, res |-> "InvalidCommand"]
         IN IF step.res # "ok" THEN step
            ELSE merge_tree_into_index(objs, Tail(tree), prefix, step.entries)

\* the write both merge_index_into_workspace loops make for a blob record:
\* an existing file with another content is left alone
MergeBlobIntoWorkspace(R, file_path, hash) ==
    IF PathExists(R, file_path) /\ file_path \notin Files THEN Fail(R, "FailedToReadFile")
    ELSE IF PathExists(R, file_path) /\ hash_object(R.ws[file_path].bytes) # hash THEN Ok(R)
    ELSE IF ~HasBlob(R.objects, hash) THEN Fail(R, "InvalidCommand")
    ELSE IF ~CanWrite(R, file_path) THEN Fail(R, "FailedToWriteFile")
    ELSE Ok(FsWrite(R, file_path, R.objects[hash].lines))

RECURSIVE merge_index_into_workspace_for_tree(_, _, _)
merge_index_into_workspace_for_tree(R, base_path, tree) ==
    IF tree = <<>> THEN Ok(R)
    ELSE LET entry == Head(tree)
             file_path == base_path \o entry.path
             step ==
                IF entry.mode = Blob THEN MergeBlobIntoWorkspace(R, file_path, entry.hash)
                ELSE IF entry.mode = Tree
                THEN LET R1 == create_dir_all(R, file_path)
                     IN IF ~HasTree(R1.objects, entry.hash) THEN Fail(R1, "InvalidCommand")
                        ELSE merge_index_into_workspace_for_tree(
                                 R1, file_path, read_tree(R1.objects, entry.hash))
                ELSE Fail(R, "InvalidCommand")
         IN IF step.res # "ok" THEN step
            ELSE merge_index_into_workspace_for_tree(step.r, base_path, Tail(tree))

RECURSIVE merge_index_into_workspace_from(_, _)
merge_index_into_workspace_from(R, entries) ==
    IF entries = <<>> THEN Ok(R)
    ELSE LET entry == Head(entries)
             file_path == entry.name
             step ==
                IF entry.mode = Blob THEN MergeBlobIntoWorkspace(R, file_path, entry.hash)
                ELSE IF entry.mode = Tree
                THEN LET R1 == create_dir_all(R, file_path)
                     IN IF ~HasTree(R1.objects, entry.hash) THEN Fail(R1, "InvalidCommand")
                        ELSE merge_index_into_workspace_for_tree(
                                 R1, file_path, read_tree(R1.objects, entry.hash))
                ELSE Fail(R, "InvalidCommand")
         IN IF step.res # "ok" THEN step
            ELSE merge_index_into_workspace_from(step.r, Tail(entries))

\* Checkout::merge_index_into_workspace
merge_index_into_workspace(R) ==
    IF ~R.index.exists THEN Fail(R, "FailedToReadFile")
    ELSE IF ~IndexReadable(R.index) THEN Fail(R, "panic")
    ELSE merge_index_into_workspace_from(R, R.index.entries)


(* ------------------------------ read-tree ------------------------------ *)
RECURSIVE restore_tree_to_index(_, _, _, _)
\* read_tree.rs restore_tree_to_index: [entries, res]
restore_tree_to_index(objs, tree_hash, prefix, entries) ==
    IF tree_hash \notin DOMAIN objs THEN [entries |-> entries, res |-> "io"]
    ELSE IF ~HasTree(objs, tree_hash) THEN [entries |-> entries, res |-> "InvalidEntry"]
    ELSE LET tree == read_tree(objs, tree_hash)
             Go[k \in 0..Len(tree)] ==
                IF k = 0 THEN [entries |-> entries, res |-> "ok"]
                ELSE LET sofar == Go[k - 1]
                         entry == tree[k]
                     IN IF sofar.res # "ok" THEN sofar
                        ELSE IF entry.mode = Tree
                        THEN restore_tree_to_index(objs, entry.hash, prefix \o entry.path,
                                                   sofar.entries)
                        ELSE IF ~IndexEntryNewOk(entry.mode)
                        THEN [entries |-> sofar.entries, res |-> "panic"]
                        ELSE [entries |-> Append(sofar.entries,
                                                 [mode |-> entry.mode, hash |-> entry.hash,
                                                  name |-> prefix \o entry.path]),
                              res |-> "ok"]
         IN Go[Len(tree)]

\* ReadTree::run
ReadTreeRun(R, tree_hash, has_prefix, prefix) ==
    IF ~R.index.exists THEN Fail(R, "InvalidCommand")
    ELSE IF has_prefix /\ ~IndexReadable(R.index) THEN Fail(R, "panic")
    ELSE LET start == IF has_prefix THEN R.index.entries ELSE <<>>
             got == restore_tree_to_index(R.objects, tree_hash, prefix, start)
         IN IF got.res # "ok" THEN Fail(R, got.res)
            ELSE Ok(write_to_file(R, got.entries))

(* ------------------------- checkout, continued ------------------------- *)
RECURSIVE restore_from_index_for_tree(_, _, _)
restore_from_index_for_tree(R, base_path, tree) ==
    IF tree = <<>> THEN Ok(R)
    ELSE LET entry == Head(tree)
             entry_path == base_path \o entry.path
             step ==
                IF entry.mode = Tree
                THEN LET R1 == create_dir_all(R, entry_path)
                     IN IF ~HasTree(R1.objects, entry.hash) THEN Fail(R1, "InvalidCommand")
                        ELSE restore_from_index_for_tree(R1, entry_path,
                                                         read_tree(R1.objects, entry.hash))
                ELSE IF entry.mode = Blob
                THEN IF ~HasBlob(R.objects, entry.hash) THEN Fail(R, "InvalidCommand")
                     ELSE IF ~CanWrite(R, entry_path) THEN Fail(R, "FailedToWriteFile")
                     ELSE Ok(FsWrite(R, entry_path, R.objects[entry.hash].lines))
                ELSE Ok(R)
         IN IF step.res # "ok" THEN step
            ELSE restore_from_index_for_tree(step.r, base_path, Tail(tree))

RECURSIVE RestoreEntries(_, _, _)
\* the inner loop of restore_from_index: the entries below `path`
RestoreEntries(R, path, entries) ==
    IF entries = <<>> THEN Ok(R)
    ELSE LET entry == Head(entries)
             entry_path == entry.name
             step ==
                IF ~IsPrefix(path, entry_path) THEN Ok(R)
                ELSE IF entry.mode = Tree
                THEN LET R1 == create_dir_all(R, entry_path)
                     IN IF ~HasTree(R1.objects, entry.hash) THEN Fail(R1, "InvalidCommand")
                        ELSE restore_from_index_for_tree(R1, entry_path,
                                                         read_tree(R1.objects, entry.hash))
                ELSE IF entry.mode = Blob
                THEN IF ~HasBlob(R.objects, entry.hash) THEN Fail(R, "InvalidCommand")
                     ELSE IF ~CanWrite(R, entry_path) THEN Fail(R, "FailedToWriteFile")
                     ELSE Ok(FsWrite(R, entry_path, R.objects[entry.hash].lines))
                ELSE Ok(R)
         IN IF step.res # "ok" THEN step ELSE RestoreEntries(step.r, path, Tail(entries))

RECURSIVE RestorePaths(_, _)
RestorePaths(R, paths) ==
    IF paths = <<>> THEN Ok(R)
    ELSE LET step == RestoreEntries(R, Head(paths), R.index.entries)
         IN IF step.res # "ok" THEN step ELSE RestorePaths(step.r, Tail(paths))

\* Checkout::restore_from_index
restore_from_index(R, paths) ==
    IF ~R.index.exists THEN Fail(R, "FailedToReadFile")
    ELSE IF ~IndexReadable(R.index) THEN Fail(R, "panic")
    ELSE RestorePaths(R, paths)

\* Checkout::run, `-b <name>`
CheckoutCreate(R, name) ==
    IF R.refs[name] # NoRef THEN Fail(R, "InvalidCommand")
    ELSE Via(Ok([R EXCEPT !.refs[name] = R.refs[R.HEAD], !.HEAD = name]), "create")

\* Checkout::run, an existing branch with nothing uncommitted: HEAD is
\* written first, then the index is read from the target tree, then the
\* workspace restored
SwitchClean(R, name) ==
    LET commit_hash == R.refs[name]
        R1 == [R EXCEPT !.HEAD = name]
    IN IF commit_hash \notin DOMAIN R.objects THEN Fail(R1, "io")
       ELSE IF R.objects[commit_hash].kind # "commit" THEN Fail(R1, "InvalidCommand")
       ELSE LET rt == ReadTreeRun(R1, R.objects[commit_hash].tree_hash, FALSE, <<>>)
            IN IF rt.res # "ok" THEN rt ELSE restore_workspace(rt.r, commit_hash)

\* Checkout::run, an existing branch with uncommitted changes
SwitchDirty(R, name) ==
    LET next_commit_hash == R.refs[name]
    IN IF ~HasCommitTree(R.objects, next_commit_hash) THEN Fail(R, "InvalidCommand")
       ELSE LET nexttree == read_tree(R.objects, R.objects[next_commit_hash].tree_hash)
                mt == merge_tree_into_index(R.objects, nexttree, <<>>, R.index.entries)
            IN IF mt.res # "ok" THEN Fail(R, mt.res)
               ELSE LET mw == merge_index_into_workspace(write_to_file(R, mt.entries))
                    IN IF mw.res # "ok" THEN mw
                       ELSE Ok([mw.r EXCEPT !.HEAD = name])

SwitchBranch(R, name) ==
    LET current_commit_hash == R.refs[R.HEAD]
    IN IF name = R.HEAD THEN Fail(R, "InvalidCommand")
       ELSE IF current_commit_hash = NoRef THEN Fail(R, "FileNotFound")
       ELSE IF ~HasCommitTree(R.objects, current_commit_hash) THEN Fail(R, "InvalidCommand")
       ELSE LET tree == read_tree(R.objects, R.objects[current_commit_hash].tree_hash)
                workspace_modified == is_workspace_modified(R)
                index_modified == is_index_modified(R.index.entries, tree)
            IN IF workspace_modified \notin {"true", "false"} THEN Fail(R, workspace_modified)
               ELSE IF workspace_modified = "false" /\ ~index_modified
               THEN Via(SwitchClean(R, name), "clean")
               ELSE Via(SwitchDirty(R, name), "dirty")

\* Checkout::run.  The argument is a path-like name: <<"dev">> is the branch
\* dev, <<"refs", "heads", "dev">> the text "refs/heads/dev".
CheckoutRun(R, create_new_branch, arg) ==
    LET is_branch == Len(arg) = 1 /\ arg[1] \in Branches
        branch_exists == is_branch /\ R.refs[arg[1]] # NoRef
    IN IF create_new_branch THEN CheckoutCreate(R, arg[1])
       ELSE IF ~branch_exists THEN Via(restore_from_index(R, <<arg>>), "paths")
       ELSE SwitchBranch(R, arg[1])


(* -------------------------------- merge -------------------------------- *)
RECURSIVE ChainReadable(_, _)
\* get_all_ancestor succeeds: every object on the first-parent walk is a commit
ChainReadable(objs, hash) ==
    /\ HasCommit(objs, hash)
    /\ objs[hash].parent_hash # <<>> => ChainReadable(objs, objs[hash].parent_hash[1])

RECURSIVE get_all_ancestor(_, _, _)
\* Merge::get_all_ancestor: the first-parent chain, oldest first
get_all_ancestor(objs, hash, sofar) ==
    IF objs[hash].parent_hash = <<>> THEN <<hash>> \o sofar
    ELSE get_all_ancestor(objs, objs[hash].parent_hash[1], <<hash>> \o sofar)

\* zip(..).take_while(|(a, b)| a == b).count()
CommonPrefixLen(s, t) ==
    LET n == IF Len(s) < Len(t) THEN Len(s) ELSE Len(t)
        Agree == {k \in 0..n : \A i \in 1..k : s[i] = t[i]}
    IN CHOOSE k \in Agree : \A j \in Agree : j <= k

\* a variant that takes the oldest commit the two chains share, not the last
first_same_commit_oldest(objs, hash1, hash2) ==
    LET ancestor1 == get_all_ancestor(objs, hash1, <<>>)
        ancestor2 == get_all_ancestor(objs, hash2, <<>>)
    IN IF ancestor1[1] = ancestor2[1] THEN ancestor1[1] ELSE NoHash

\* Merge::first_same_commit: NoHash stands for Err(no_same_ancestor)
first_same_commit(objs, hash1, hash2) ==
    LET ancestor1 == get_all_ancestor(objs, hash1, <<>>)
        ancestor2 == get_all_ancestor(objs, hash2, <<>>)
        idx == CommonPrefixLen(ancestor1, ancestor2)
    IN IF idx >= 1 THEN ancestor1[idx] ELSE NoHash

RECURSIVE FlattenTree(_, _, _)
\* Tree::into_iter_flatten: the blob records below a tree, with full paths
FlattenTree(objs, tree, base) ==
    IF tree = <<>> THEN <<>>
    ELSE LET entry == Head(tree)
             here == IF objs[entry.hash].kind = "tree"
                     THEN FlattenTree(objs, read_tree(objs, entry.hash), base \o entry.path)
                     ELSE <<[entry EXCEPT !.path = base \o entry.path]>>
         IN here \o FlattenTree(objs, Tail(tree), base)

RECURSIVE CanFlatten(_, _)
\* into_iter_flatten succeeds: every object below is readable, none a commit
CanFlatten(objs, tree) ==
    \A i \in 1..Len(tree) :
        /\ ObjReadable(objs, tree[i].hash)
        /\ objs[tree[i].hash].kind # "commit"
        /\ objs[tree[i].hash].kind = "tree" => CanFlatten(objs, read_tree(objs, tree[i].hash))

RECURSIVE sorted(_)
\* Itertools::sorted on TreeEntry (ordered by path): a stable sort
sorted(s) ==
    IF s = <<>> THEN <<>>
    ELSE LET rest == sorted(Tail(s))
             k == Cardinality({i \in 1..Len(rest) : PathLess(rest[i].path, Head(s).path)})
         IN SubSeq(rest, 1, k) \o <<Head(s)>> \o SubSeq(rest, k + 1, Len(rest))

RECURSIVE diff_array(_, _)
\* Merge::diff_array: the records on one side only and the pairs on both;
\* each is pushed after the recursive call returns
diff_array(a, b) ==
    IF a = <<>> /\ b = <<>> THEN [difference |-> <<>>, same |-> <<>>]
    ELSE IF b = <<>> THEN [difference |-> a, same |-> <<>>]
    ELSE IF a = <<>> THEN [difference |-> b, same |-> <<>>]
    ELSE IF Head(a).path = Head(b).path
    THEN LET r == diff_array(Tail(a), Tail(b))
         IN [difference |-> r.difference, same |-> Append(r.same, <<Head(a), Head(b)>>)]
    ELSE IF PathLess(Head(a).path, Head(b).path)
    THEN LET r == diff_array(Tail(a), b)
         IN [difference |-> Append(r.difference, Head(a)), same |-> r.same]
    ELSE LET r == diff_array(a, Tail(b))
         IN [difference |-> Append(r.difference, Head(b)), same |-> r.same]

\* str::split("\n") of a file whose lines all end in a newline: the lines and
\* one trailing empty piece (0)
SplitLines(lines) == lines \o <<0>>

\* Merge::diff_text: the ranges of line numbers that differ
diff_text(original, modified) ==
    LET origin == SplitLines(original)
        modify == SplitLines(modified)
        minimal == IF Len(origin) < Len(modify) THEN Len(origin) ELSE Len(modify)
        ori_rest == Len(origin) - minimal
        mod_rest == Len(modify) - minimal
        Differ == {i \in 1..minimal : origin[i] # modify[i]}
        \* maximal runs of consecutive differing lines
        Starts == {i \in Differ : (i - 1) \notin Differ}
        RunOf(i) == {j \in Differ : j >= i /\ \A k \in i..j : k \in Differ}
        Run(i) == [k \in 1..Cardinality(RunOf(i)) |-> i + k - 1]
        RECURSIVE Runs(_)
        Runs(S) == IF S = {} THEN <<>>
                   ELSE LET m == CHOOSE x \in S : \A y \in S : x <= y
                        IN <<Run(m)>> \o Runs(S \ {m})
        tail == IF ori_rest > mod_rest THEN <<<<minimal + 1, minimal + mod_rest - 1>>>>
                ELSE IF ori_rest < mod_rest THEN <<<<minimal + 1, minimal + ori_rest - 1>>>>
                ELSE IF ori_rest = 1 THEN <<<<minimal + 1>>>>
                ELSE IF ori_rest # 0 THEN <<<<minimal + 1, minimal + ori_rest - 1>>>>
                ELSE <<>>
    IN Runs(Starts) \o tail

\* diffy's MergeOptions::merge("", ours, theirs) with ConflictStyle::Merge:
\* equal texts, or one empty side, merge cleanly; otherwise the text with the
\* conflict markers (-1 "<<<<<<< ours", -2 "=======", -3 ">>>>>>> theirs")
\* is returned as the error
MergeTextOk(a_blob, b_blob) == a_blob = b_blob \/ a_blob = <<>> \/ b_blob = <<>>
ConflictText(a_blob, b_blob) == <<-1>> \o a_blob \o <<-2>> \o b_blob \o <<-3>>

IndexEntryOf(e) == [mode |-> e.mode, hash |-> e.hash, name |-> e.path]

\* Merge::save_conflict_object: [objs, entries]
save_conflict_object(objs, entries, a, b, a_blob, b_blob) ==
    LET two == entries \o <<IndexEntryOf(a), IndexEntryOf(b)>>
        diff == ConflictText(a_blob, b_blob)
    IN IF MergeTextOk(a_blob, b_blob) THEN [objs |-> objs, entries |-> two]
       ELSE [objs |-> PutObject(objs, BlobObj(diff), diff),
             entries |-> Append(two, [mode |-> a.mode, hash |-> hash_object(diff),
                                      name |-> a.path])]


\* a variant that stops at the first pair with unequal ids
HandleConflictsFirst(objs, entries, not, msg) ==
    IF not = <<>> THEN [objs |-> objs, entries |-> entries, msg |-> msg]
    ELSE LET a == Head(not)[1]
             b == Head(not)[2]
             a_blob == objs[a.hash].lines
             b_blob == objs[b.hash].lines
             saved == save_conflict_object(objs, entries, a, b, a_blob, b_blob)
         IN [objs |-> saved.objs, entries |-> saved.entries, msg |-> msg \o <<a.path>>]

RECURSIVE HandleConflicts(_, _, _, _)
\* the closure handle_same_file maps over the pairs with unequal ids, in
\* order: [objs, entries, msg], msg the paths the error text names
HandleConflicts(objs, entries, not, msg) ==
    IF not = <<>> THEN [objs |-> objs, entries |-> entries, msg |-> msg]
    ELSE LET a == Head(not)[1]
             b == Head(not)[2]
         IN IF ~HasBlob(objs, a.hash) \/ ~HasBlob(objs, b.hash)
            THEN HandleConflicts(objs, entries, Tail(not), msg)
            ELSE LET a_blob == objs[a.hash].lines
                     b_blob == objs[b.hash].lines
                     saved == save_conflict_object(objs, entries, a, b, a_blob, b_blob)
                     named == IF diff_text(a_blob, b_blob) # <<>> THEN <<a.path>> ELSE <<>>
                 IN HandleConflicts(saved.objs, saved.entries, Tail(not), msg \o named)

\* Merge::handle_same_file: [objs, entries, res, msg]
handle_same_file(objs, entries, same) ==
    LET equal == SelectSeq(same, LAMBDA p : p[1].hash = p[2].hash)
        not == SelectSeq(same, LAMBDA p : p[1].hash # p[2].hash)
        staged == entries \o [i \in 1..Len(equal) |-> IndexEntryOf(equal[i][1])]
        done == HandleConflicts(objs, staged, not, <<>>)
    IN IF \E i \in 1..Len(equal) : ~IndexEntryNewOk(equal[i][1].mode)
       THEN [objs |-> objs, entries |-> entries, res |-> "panic", msg |-> <<>>]
       ELSE IF not = <<>>
       THEN [objs |-> objs, entries |-> staged, res |-> "ok", msg |-> <<>>]
       ELSE [objs |-> done.objs, entries |-> done.entries, res |-> "MergeConflict",
             msg |-> done.msg]

\* Merge::merge_tree: the index is rebuilt from Index::new() and written to
\* the index file, on a conflict as well
merge_tree(R, hash_a, hash_b) ==
    IF ~HasTree(R.objects, hash_a) \/ ~HasTree(R.objects, hash_b) THEN Fail(R, "NotATTree")
    ELSE LET tree_a == read_tree(R.objects, hash_a)
             tree_b == read_tree(R.objects, hash_b)
         IN IF ~CanFlatten(R.objects, tree_a) \/ ~CanFlatten(R.objects, tree_b)
            THEN Fail(R, "InvalidCommit")
            ELSE LET paths_a == sorted(FlattenTree(R.objects, tree_a, <<>>))
                     paths_b == sorted(FlattenTree(R.objects, tree_b, <<>>))
                     d == diff_array(paths_a, paths_b)
                     first == [i \in 1..Len(d.difference) |-> IndexEntryOf(d.difference[i])]
                     hs == handle_same_file(R.objects, first, d.same)
                 IN IF \E i \in 1..Len(d.difference) : ~IndexEntryNewOk(d.difference[i].mode)
                    THEN Fail(R, "panic")
                    ELSE IF d.same = <<>> THEN Ok(write_to_file(R, first))
                    ELSE IF hs.res = "panic" THEN Fail(R, "panic")
                    ELSE [r |-> write_to_file([R EXCEPT !.objects = hs.objs], hs.entries),
                          res |-> hs.res, via |-> "", msg |-> hs.msg]

\* Merge::fast_forward
fast_forward(R, branch_name, original_branch) ==
    LET hash == R.refs[branch_name]
        checkout == CheckoutRun(R, FALSE, <<branch_name>>)
    IN IF checkout.res # "ok" THEN checkout
       ELSE Ok([checkout.r EXCEPT !.refs[original_branch] = hash, !.HEAD = original_branch])

\* a variant that writes the tree and the commit of the merge and moves the
\* branch before it returns the conflict
MergeCommitFirst(R, mt, branch, hash1, hash2) ==
    LET entries == mt.r.index.entries
        tree == [i \in 1..Len(entries) |->
                    [tok |-> FileModeStr(entries[i].mode), path |-> entries[i].name,
                     hash |-> entries[i].hash]]
        tree_hash == hash_object(TreeBytes(tree))
        R1 == [mt.r EXCEPT !.objects = PutObject(@, TreeObj(tree), TreeBytes(tree))]
        parents == <<hash1, hash2>>
        R2 == write_commit(R1, tree_hash, parents, MsgMerge(branch))
        merge_hash == CommitId(tree_hash, parents, MsgMerge(branch))
        R3 == [R2 EXCEPT !.refs[R.HEAD] = merge_hash]
    IN IF mt.res # "ok" THEN [mt EXCEPT !.r = R3]
       ELSE CheckoutRun(R3, FALSE, <<"refs", "heads", R.HEAD>>)

\* Merge::run after merge_tree returned `mt`: its error is returned, or the
\* tree of the merged index and the merge commit are written, the ref moved
\* and checkout run
MergeCommit(R, mt, branch, hash1, hash2) ==
    IF mt.res # "ok" THEN mt
    ELSE LET entries == mt.r.index.entries
             tree == [i \in 1..Len(entries) |->
                         [tok |-> FileModeStr(entries[i].mode), path |-> entries[i].name,
                          hash |-> entries[i].hash]]
             tree_hash == hash_object(TreeBytes(tree))
             R1 == [mt.r EXCEPT !.objects = PutObject(@, TreeObj(tree), TreeBytes(tree))]
             parents == <<hash1, hash2>>
             R2 == write_commit(R1, tree_hash, parents, MsgMerge(branch))
             merge_hash == CommitId(tree_hash, parents, MsgMerge(branch))
             R3 == [R2 EXCEPT !.refs[R.HEAD] = merge_hash]
             \* read_head_ref returns "refs/heads/<branch>", which is
             \* handed to checkout as its branch name
         IN CheckoutRun(R3, FALSE, <<"refs", "heads", R.HEAD>>)

\* Merge::run, neither tip an ancestor of the other
MergeThreeWay(R, branch, hash1, hash2) ==
    MergeCommit(R, merge_tree(R, R.objects[hash1].tree_hash, R.objects[hash2].tree_hash),
                branch, hash1, hash2)

\* Merge::run
MergeRun(R, branch) ==
    LET hash1 == R.refs[R.HEAD]
        hash2 == R.refs[branch]
    IN IF hash1 = NoRef \/ hash2 = NoRef THEN Fail(R, "FileNotFound")
       ELSE IF ~ChainReadable(R.objects, hash1) \/ ~ChainReadable(R.objects, hash2)
       THEN Fail(R, "BrokenCommitHistory")
       ELSE LET base_hash == first_same_commit(R.objects, hash1, hash2)
            IN IF base_hash = NoHash
               THEN Via(Fail(R, "MergeConflict"), "no_same_ancestor")
               ELSE IF base_hash = hash2 THEN Via(Ok(R), "up_to_date")
               ELSE IF base_hash = hash1
               THEN Via(fast_forward(R, branch, R.HEAD), "fast_forward")
               ELSE Via(MergeThreeWay(R, branch, hash1, hash2), "three_way")


(* ------------------------------- actions ------------------------------- *)
\* an Index in memory, the file it is written to, and what reading the file
\* back returns: nothing built, written or read yet
NoIxFile == [phase |-> "new", entries |-> <<>>, bytes |-> <<>>,
             back |-> [res |-> "", entries |-> <<>>]]

\* an object buffer, the object decoded from it, the buffer that object is
\* encoded to and the object decoded from that: nothing taken up yet
NoCodec == [phase |-> "none", bytes |-> <<>>, first |-> <<>>, encoded |-> <<>>,
            again |-> <<>>, want |-> ""]

NumCommits == Cardinality({h \in DOMAIN objects : objects[h].kind = "commit"})

\* what `last` holds after a command: its name, argument, result, the branch
\* of the code taken, the paths its error names, and the tips of the current
\* and of the named branch when it started
Done(o, cmd, arg) ==
    /\ objects' = o.r.objects
    /\ refs' = o.r.refs
    /\ HEAD' = o.r.HEAD
    /\ index' = o.r.index
    /\ ws' = o.r.ws
    /\ dirs' = o.r.dirs
    /\ last' = [cmd |-> cmd, arg |-> arg, res |-> o.res, via |-> o.via, msg |-> o.msg,
                ours |-> refs[HEAD],
                theirs |-> IF Len(arg) = 1 /\ arg[1] \in Branches THEN refs[arg[1]] ELSE NoRef]
    /\ UNCHANGED <<ixfile, codec>>

\* the user's own steps in the working directory leave `last` at this value
Edited == [cmd |-> "edit", arg |-> <<>>, res |-> "ok", via |-> "", msg |-> <<>>,
           ours |-> NoRef, theirs |-> NoRef]

\* the user writes a file (mkdir -p of its directory, then the write)
WsWrite(p, c) ==
    /\ ~(ws[p].exists /\ ws[p].bytes = c)
    /\ ws' = [ws EXCEPT ![p] = [exists |-> TRUE, bytes |-> c,
                                exec |-> IF ws[p].exists THEN ws[p].exec ELSE FALSE]]
    /\ dirs' = dirs \cup {SubSeq(p, 1, k) : k \in 1..(Len(p) - 1)}
    /\ last' = Edited
    /\ UNCHANGED <<objects, refs, HEAD, index, ixfile, codec>>

\* the user removes a file or a directory with all below it (rm -r)
WsRemove(p) ==
    /\ PathExists(Cur, p)
    /\ ws' = [f \in Files |-> IF IsPrefix(p, f) THEN NoFile ELSE ws[f]]
    /\ dirs' = {d \in dirs : ~IsPrefix(p, d)}
    /\ last' = Edited
    /\ UNCHANGED <<objects, refs, HEAD, index, ixfile, codec>>

\* the arguments `add` is run with: "."
AddArgs == {<<<<>>>>}

Add(args) == Done(AddRun(Cur, args), "add", Flatten(args))

CommitAct ==
    /\ NumCommits < MaxCommits
    /\ Done(CommitRun(Cur), "commit", <<>>)

CheckoutB(b) == Done(CheckoutRun(Cur, TRUE, <<b>>), "checkout -b", <<b>>)

CheckoutAct(b) == Done(CheckoutRun(Cur, FALSE, <<b>>), "checkout", <<b>>)

MergeAct(b) ==
    /\ NumCommits < MaxHistory
    /\ Done(MergeRun(Cur, b), "merge", <<b>>)

\* the repository after `rit init`
Init ==
    /\ objects = <<>>
    /\ refs = [b \in Branches |-> NoRef]
    /\ HEAD = "master"
    /\ index = NoIndex
    /\ ws = [f \in Files |-> NoFile]
    /\ dirs = {}
    /\ last = [Edited EXCEPT !.cmd = "init"]
    /\ ixfile = NoIxFile
    /\ codec = NoCodec

Next ==
    \/ \E p \in EditFiles, c \in Contents : WsWrite(p, c)
    \/ WsRemove(<<"d">>)
    \/ \E args \in AddArgs : Add(args)
    \/ CommitAct
    \/ \E b \in Branches : CheckoutB(b)
    \/ \E b \in Branches : CheckoutAct(b)
    \/ \E b \in Branches : MergeAct(b)

Spec == Init /\ [][Next]_vars


(* --------------------- histories to merge and switch ------------------- *)
\* A snapshot gives each file its content, 0 for an absent file.  File c
\* has one content; a base holds c, and content 1 only.
Snapshots == {s \in [Files -> 0..MaxContent] : s[<<"c">>] <= 1}
BaseSnapshots == {s \in [Files -> 0..1] : s[<<"c">>] = 1}

\* the repository after `rit init`
InitRepo ==
    [objects |-> <<>>, refs |-> [b \in Branches |-> NoRef], HEAD |-> "master",
     index |-> NoIndex, ws |-> [f \in Files |-> NoFile], dirs |-> {}]

\* the user makes the working directory hold exactly the snapshot
SetWs(R, s) ==
    [R EXCEPT !.ws = [f \in Files |->
                        IF s[f] = 0 THEN NoFile
                        ELSE [exists |-> TRUE, bytes |-> <<s[f]>>, exec |-> FALSE]],
              !.dirs = {Parent(f) : f \in {g \in Files : s[g] # 0 /\ Len(g) > 1}}]

\* the author and time lines `commit-tree` writes differ from `commit`'s
MsgCommitTree == 4

\* WriteTree::lazy_fucker, CommitTree::run without -p, UpdateRef::run
WriteTreeRun(R) ==
    LET bt == build_tree_recursive(R.index.entries, <<>>)
    IN [r |-> [R EXCEPT !.objects = bt.objs @@ @], hash |-> bt.hash]
CommitTreeRun(R, tree_hash) == write_commit(R, tree_hash, <<>>, MsgCommitTree)
UpdateRefRun(R, b, hash) == [R EXCEPT !.refs[b] = hash]

\* `commit-tree <tree>` on what write-tree returned, then `update-ref` of
\* branch b to the commit: a root of its own
RootCommit(wt, b) ==
    UpdateRefRun(CommitTreeRun(wt.r, wt.hash), b, CommitId(wt.hash, <<>>, MsgCommitTree))

\* the steps of a setup script
Edit(s) == [cmd |-> "edit", s |-> s, b |-> ""]
AddAll == [cmd |-> "add", s |-> <<>>, b |-> ""]
CommitIt == [cmd |-> "commit", s |-> <<>>, b |-> ""]
NewBranch(b) == [cmd |-> "checkout -b", s |-> <<>>, b |-> b]
Switch(b) == [cmd |-> "checkout", s |-> <<>>, b |-> b]
Root(b) == [cmd |-> "root", s |-> <<>>, b |-> b]
Write(p, bytes) == [cmd |-> "write", s |-> <<p, bytes>>, b |-> ""]

\* the repository one step of a setup script leaves
ScriptStep(R, c) ==
    CASE c.cmd = "edit" -> SetWs(R, c.s)
      [] c.cmd = "add" -> AddRun(R, <<<<>>>>).r
      [] c.cmd = "commit" -> CommitRun(R).r
      [] c.cmd \in {"checkout -b", "checkout"} ->
            CheckoutRun(R, c.cmd = "checkout -b", <<c.b>>).r
      [] c.cmd = "root" -> RootCommit(WriteTreeRun(R), c.b)
      [] c.cmd = "write" -> FsWrite(R, c.s[1], c.s[2])

RECURSIVE RunScript(_, _)
RunScript(R, script) ==
    IF script = <<>> THEN R ELSE RunScript(ScriptStep(R, Head(script)), Tail(script))

\* edit to the snapshot, `add .`, `commit`
Snap(s) == <<Edit(s), AddAll, CommitIt>>

\* master: A - X, dev: A - Y; on master, the workspace and index at X
DivergedRepo(sA, sX, sY) ==
    Snap(sA) \o <<NewBranch("dev")>> \o Snap(sY) \o <<Switch("master")>> \o Snap(sX)

\* master: A, dev: A - B - C; on master, the workspace and index at A
LinearRepo(sA, sB, sC) ==
    Snap(sA) \o <<NewBranch("dev")>> \o Snap(sB) \o Snap(sC)
    \o <<Switch("master"), Edit(sA), AddAll>>

\* master: A, dev: a root of its own, made with write-tree, commit-tree and
\* update-ref; on master, the workspace and index at A
UnrelatedRepo(sA, sY) ==
    Snap(sA) \o <<Edit(sY), AddAll, Root("dev"), Edit(sA), AddAll>>

\* the setup scripts the merges start from
MergeScripts ==
    {DivergedRepo(sA, sX, sY) : sA \in BaseSnapshots, sX \in Snapshots, sY \in Snapshots}
    \cup {LinearRepo(sA, sB, sC) : sA \in BaseSnapshots, sB \in Snapshots, sC \in Snapshots}
    \cup {UnrelatedRepo(sA, sY) : sA \in BaseSnapshots, sY \in BaseSnapshots}

InitFrom(R) ==
    /\ objects = R.objects
    /\ refs = R.refs
    /\ HEAD = R.HEAD
    /\ index = R.index
    /\ ws = R.ws
    /\ dirs = R.dirs
    /\ last = [Edited EXCEPT !.cmd = "init"]
    /\ ixfile = NoIxFile
    /\ codec = NoCodec

InitMerge == \E script \in MergeScripts : InitFrom(RunScript(InitRepo, script))

NextMerge ==
    \/ \E b \in Branches : MergeAct(b)
    \/ \E b \in Branches : CheckoutAct(b)

SpecMerge == InitMerge /\ [][NextMerge]_vars


(* ------------------- files with and without the exec bit --------------- *)
\* the user flips the executable bit of a file (chmod +x, chmod -x)
WsChmod(p) ==
    /\ ws[p].exists
    /\ ws' = [ws EXCEPT ![p].exec = ~@]
    /\ last' = Edited
    /\ UNCHANGED <<objects, refs, HEAD, index, dirs, ixfile, codec>>

NextStatus ==
    \/ \E p \in EditFiles, c \in Contents : WsWrite(p, c)
    \/ \E p \in EditFiles : WsChmod(p)
    \/ \E args \in AddArgs : Add(args)
    \/ CommitAct

SpecStatus == Init /\ [][NextStatus]_vars


(* --------------------------- index commands ---------------------------- *)
RECURSIVE from_str_radix(_, _)
\* u32::from_str_radix(tok, 8) on a token of octal digits
from_str_radix(tok, acc) ==
    IF tok = <<>> THEN acc ELSE from_str_radix(Tail(tok), acc * 8 + Head(tok))

\* the index a command starts from: the index file read, or Index::new()
\* when there is no file
StartEntries(R) == IF R.index.exists THEN R.index.entries ELSE <<>>

RECURSIVE UpdateIndexAddNames(_, _, _)
\* UpdateIndex::run, the loop of --add: [r, entries, res]
UpdateIndexAddNames(R, entries, names) ==
    IF names = <<>> THEN [r |-> R, entries |-> entries, res |-> "ok"]
    ELSE LET name == Head(names)
         IN IF ~PathExists(R, name) THEN [r |-> R, entries |-> entries, res |-> "FileNotFound"]
            ELSE IF ~IsFile(R, name) THEN [r |-> R, entries |-> entries, res |-> "io"]
            ELSE UpdateIndexAddNames(write_blob(R, R.ws[name].bytes),
                                     Append(entries, [mode |-> Blob,
                                                      hash |-> hash_object(R.ws[name].bytes),
                                                      name |-> name]),
                                     Tail(names))

RECURSIVE UpdateIndexRmNames(_, _)
\* UpdateIndex::run, the loop of --rm: [entries, res]
UpdateIndexRmNames(entries, names) ==
    IF names = <<>> THEN [entries |-> entries, res |-> "ok"]
    ELSE IF Head(names) \notin Names(entries) THEN [entries |-> entries, res |-> "FileNotFound"]
    ELSE UpdateIndexRmNames(remove_entry(entries, Head(names)), Tail(names))

\* UpdateIndex::run with --cacheinfo <mode> <hash> <name>
UpdateIndexCacheinfo(R, tok, hash, name) ==
    IF R.index.exists /\ ~IndexReadable(R.index) THEN Fail(R, "panic")
    ELSE IF ~IndexEntryNewOk(from_str_radix(tok, 0)) THEN Fail(R, "panic")
    ELSE Ok(write_to_file(R, Append(StartEntries(R),
                                    [mode |-> from_str_radix(tok, 0), hash |-> hash,
                                     name |-> name])))

\* UpdateIndex::run with --add <names>
UpdateIndexAdd(R, names) ==
    IF R.index.exists /\ ~IndexReadable(R.index) THEN Fail(R, "panic")
    ELSE IF names = <<>> THEN Fail(R, "InvalidCommand")
    ELSE LET got == UpdateIndexAddNames(R, StartEntries(R), names)
         IN IF got.res # "ok" THEN Fail(got.r, got.res)
            ELSE Ok(write_to_file(got.r, got.entries))

\* UpdateIndex::run with --rm <names>
UpdateIndexRm(R, names) ==
    IF R.index.exists /\ ~IndexReadable(R.index) THEN Fail(R, "panic")
    ELSE IF names = <<>> THEN Fail(R, "InvalidCommand")
    ELSE LET got == UpdateIndexRmNames(StartEntries(R), names)
         IN IF got.res # "ok" THEN Fail(R, got.res)
            ELSE Ok(write_to_file(R, got.entries))

\* Rm::run on one path, without -r: the first entry of that name is removed,
\* and the file as well unless --cached
RmRun(R, cached, path) ==
    IF R.index.exists /\ ~IndexReadable(R.index) THEN Fail(R, "panic")
    ELSE IF ~PathExists(R, path) \/ IsDir(R, path) THEN Fail(R, "NotARepoFile")
    ELSE IF path \notin Names(StartEntries(R)) THEN Fail(R, "NotARepoFile")
    ELSE LET entries == RemoveAt(StartEntries(R), FindName(StartEntries(R), path))
             R1 == IF cached THEN R ELSE [R EXCEPT !.ws[path] = NoFile]
         IN Ok(write_to_file(R1, entries))

\* WriteTree::run
WriteTreeCmd(R) ==
    IF ~R.index.exists THEN Fail(R, "io")
    ELSE IF ~IndexReadable(R.index) THEN Fail(R, "panic")
    ELSE Ok(WriteTreeRun(R).r)


MaxTrees == 2

\* the commands run on the index, with the index kept to MaxIndexLen entries
Bounded(o) == Len(o.r.index.entries) <= MaxIndexLen

TreeIds(objs) == {h \in DOMAIN objs : objs[h].kind = "tree"}
BlobIds(objs) == {h \in DOMAIN objs : objs[h].kind = "blob"}

\* the mode tokens handed to --cacheinfo
CacheinfoModes == {<<1, 0, 0, 6, 4, 4>>, <<1, 6, 0, 0, 0, 0>>}

UpdateIndexAddAct(names) ==
    /\ Bounded(UpdateIndexAdd(Cur, names))
    /\ Done(UpdateIndexAdd(Cur, names), "update-index --add", Flatten(names))

UpdateIndexCacheinfoAct(tok, hash, name) ==
    /\ Bounded(UpdateIndexCacheinfo(Cur, tok, hash, name))
    /\ Done(UpdateIndexCacheinfo(Cur, tok, hash, name), "update-index --cacheinfo", name)

UpdateIndexRmAct(names) ==
    Done(UpdateIndexRm(Cur, names), "update-index --rm", Flatten(names))

RmAct(cached, path) ==
    Done(RmRun(Cur, cached, path), IF cached THEN "rm --cached" ELSE "rm", path)

\* write-tree, while the store holds fewer than MaxTrees trees
WriteTreeAct ==
    /\ Cardinality(TreeIds(objects)) < MaxTrees
    /\ Done(WriteTreeCmd(Cur), "write-tree", <<>>)

ReadTreeAct(tree_hash, has_prefix, prefix) ==
    /\ Bounded(ReadTreeRun(Cur, tree_hash, has_prefix, prefix))
    /\ Done(ReadTreeRun(Cur, tree_hash, has_prefix, prefix),
            IF has_prefix THEN "read-tree --prefix" ELSE "read-tree", prefix)

NextIndex ==
    \/ \E p \in EditFiles : WsWrite(p, <<1>>)
    \/ \E args \in AddArgs : Add(args)
    \/ \E p \in EditFiles : UpdateIndexAddAct(<<p>>)
    \/ \E tok \in CacheinfoModes, h \in BlobIds(objects) :
          UpdateIndexCacheinfoAct(tok, h, <<"a">>)
    \/ \E p \in EditFiles : UpdateIndexRmAct(<<p>>)
    \/ \E cached \in BOOLEAN, p \in EditFiles : RmAct(cached, p)
    \/ WriteTreeAct
    \/ \E h \in TreeIds(objects), has_prefix \in BOOLEAN :
          ReadTreeAct(h, has_prefix, IF has_prefix THEN <<"d">> ELSE <<>>)

SpecIndex == Init /\ [][NextIndex]_vars


(* --------------------------- the index file ---------------------------- *)
\* u32::to_be_bytes, u16::to_be_bytes, u32::from_be_bytes
be_u32(n) == <<(n \div 16777216) % 256, (n \div 65536) % 256, (n \div 256) % 256, n % 256>>
be_u16(n) == <<(n \div 256) % 256, n % 256>>
from_be_bytes(b) == b[1] * 16777216 + b[2] * 65536 + b[3] * 256 + b[4]

\* the value of a hex digit given as its character code, -1 for another char
HexVal(c) ==
    IF c \in 48..57 THEN c - 48
    ELSE IF c \in 97..102 THEN c - 87
    ELSE IF c \in 65..70 THEN c - 55
    ELSE -1

\* the lowercase hex digit of a nibble, as its character code
HexChar(v) == IF v < 10 THEN 48 + v ELSE 87 + v

\* hex::decode succeeds on a string
HexOk(str) == Len(str) % 2 = 0 /\ \A i \in 1..Len(str) : HexVal(str[i]) >= 0

\* hex::decode, hex::encode
hex_decode(str) ==
    [i \in 1..(Len(str) \div 2) |-> 16 * HexVal(str[2 * i - 1]) + HexVal(str[2 * i])]
hex_encode(bytes) ==
    [i \in 1..(2 * Len(bytes)) |->
        IF i % 2 = 1 THEN HexChar(bytes[(i + 1) \div 2] \div 16)
        ELSE HexChar(bytes[i \div 2] % 16)]

\* the path segment a byte stands for: the inverse of SegCode
SegOf(c) ==
    CASE c = 97 -> "a" [] c = 98 -> "b" [] c = 99 -> "c" [] c = 100 -> "d" [] OTHER -> "z"

RECURSIVE PathFromBytes(_, _)
\* String::from_utf8 of a name, read as a path: "/" (47) separates segments
PathFromBytes(bytes, seg) ==
    IF bytes = <<>> THEN (IF seg = <<>> THEN <<>> ELSE <<SegOf(seg[1])>>)
    ELSE IF Head(bytes) = 47 THEN <<SegOf(seg[1])>> \o PathFromBytes(Tail(bytes), <<>>)
    ELSE PathFromBytes(Tail(bytes), seg \o <<Head(bytes)>>)

Zeros(n) == [i \in 1..n |-> 0]

\* the zero bytes after the NUL of a name of n bytes, up to the 8-byte boundary
Pad(n) == (8 - ((63 + n) % 8)) % 8

\* the 20 bytes Sha1 gives a buffer: some function of the buffer
Checksum(buffer) ==
    [i \in 1..20 |-> (buffer[((7 * i) % Len(buffer)) + 1] + i * Len(buffer)) % 256]

\* Index::write_to_file, one entry
EntryToBytes(entry) ==
    Zeros(24) \o be_u32(entry.mode) \o Zeros(12) \o hex_decode(entry.hash)
    \o be_u16(Len(PathBytes(entry.name)) % 4096)
    \o PathBytes(entry.name) \o <<0>> \o Zeros(Pad(Len(PathBytes(entry.name))))

\* Index::write_to_file: the bytes of the file; <<>> stands for the io
\* error returned when an id is not hex
WriteIndexBytes(entries) ==
    IF \E i \in 1..Len(entries) : ~HexOk(entries[i].hash) THEN <<>>
    ELSE LET buffer == <<68, 73, 82, 67>> \o be_u32(2) \o be_u32(Len(entries))
                       \o Flatten([i \in 1..Len(entries) |-> EntryToBytes(entries[i])])
         IN buffer \o Checksum(buffer)

\* the position of the first zero byte, 0 when there is none
NulPos(input) ==
    IF \E i \in 1..Len(input) : input[i] = 0
    THEN CHOOSE i \in 1..Len(input) : input[i] = 0 /\ \A j \in 1..(i - 1) : input[j] # 0
    ELSE 0

Drop(input, n) == SubSeq(input, n + 1, Len(input))

\* Index::parse_entry: [res, entry, rest]
parse_entry(input) ==
    LET mode == from_be_bytes(SubSeq(input, 25, 28))
        hash == SubSeq(input, 41, 60)
        after == Drop(input, 62)
        nul_pos == NulPos(after)
        name == SubSeq(after, 1, nul_pos - 1)
        rest == Drop(after, nul_pos)
        pad == Pad(Len(name))
        none == [mode |-> 0, hash |-> <<>>, name |-> <<>>]
    IN IF Len(input) < 62 THEN [res |-> "InvalidData", entry |-> none, rest |-> <<>>]
       ELSE IF nul_pos = 0 \/ pad > Len(rest) \/ ~IndexEntryNewOk(mode)
       THEN [res |-> "panic", entry |-> none, rest |-> <<>>]
       ELSE [res |-> "ok",
             entry |-> [mode |-> mode, hash |-> hex_encode(hash),
                        name |-> PathFromBytes(name, <<>>)],
             rest |-> Drop(rest, pad)]

RECURSIVE ParseEntries(_, _, _)
\* the loop of parse_index over entry_count entries: [res, entries, rest]
ParseEntries(input, count, entries) ==
    IF count = 0 THEN [res |-> "ok", entries |-> entries, rest |-> input]
    ELSE LET e == parse_entry(input)
         IN IF e.res # "ok" THEN [res |-> e.res, entries |-> <<>>, rest |-> <<>>]
            ELSE ParseEntries(e.rest, count - 1, Append(entries, e.entry))

\* Index::parse_index and Index::read_from_file: [res, entries]
parse_index(bytes) ==
    LET bad == [res |-> "InvalidData", entries |-> <<>>]
    IN IF Len(bytes) < 12 \/ SubSeq(bytes, 1, 4) # <<68, 73, 82, 67>> THEN bad
       ELSE LET got == ParseEntries(Drop(bytes, 12), from_be_bytes(SubSeq(bytes, 9, 12)), <<>>)
            IN IF got.res # "ok" THEN [res |-> got.res, entries |-> <<>>]
               ELSE IF Len(got.rest) < 20 THEN bad
               ELSE [res |-> "ok", entries |-> got.entries]

\* the ids and names of the entries put into an Index in memory
HexIds == {[i \in 1..40 |-> IF i % 2 = 1 THEN 48 + k ELSE 97 + k] : k \in 0..1}
IxNames == Files \cup {<<"d", "d", "b">>}

\* index.add_entry(IndexEntry { mode, hash, name })
PushEntry(mode, hash, name) ==
    /\ ixfile.phase = "new"
    /\ Len(ixfile.entries) < MaxIndexLen
    /\ ixfile' = [ixfile EXCEPT !.entries = Append(@, [mode |-> mode, hash |-> hash,
                                                       name |-> name])]
    /\ UNCHANGED <<objects, refs, HEAD, index, ws, dirs, last, codec>>

\* index.write_to_file(path)
WriteToFile ==
    /\ ixfile.phase = "new"
    /\ WriteIndexBytes(ixfile.entries) # <<>>
    /\ ixfile' = [ixfile EXCEPT !.phase = "written", !.bytes = WriteIndexBytes(ixfile.entries)]
    /\ UNCHANGED <<objects, refs, HEAD, index, ws, dirs, last, codec>>

\* Index::new().read_from_file(path)
ReadFromFile ==
    /\ ixfile.phase = "written"
    /\ ixfile' = [ixfile EXCEPT !.phase = "read", !.back = parse_index(ixfile.bytes)]
    /\ UNCHANGED <<objects, refs, HEAD, index, ws, dirs, last, codec>>

\* the file is removed and a new Index begun
NewIndex ==
    /\ ixfile.phase = "read"
    /\ ixfile' = NoIxFile
    /\ UNCHANGED <<objects, refs, HEAD, index, ws, dirs, last, codec>>

NextIndexFile ==
    \/ \E mode \in FileMode, hash \in HexIds, name \in IxNames : PushEntry(mode, hash, name)
    \/ WriteToFile
    \/ ReadFromFile
    \/ NewIndex

SpecIndexFile == Init /\ [][NextIndexFile]_vars


(* --------------------------- object encodings -------------------------- *)
\* the kind tags as bytes: "blob", "tree", "commit"
TagOf(kind) ==
    CASE kind = "blob" -> <<98, 108, 111, 98>>
      [] kind = "tree" -> <<116, 114, 101, 101>>
      [] kind = "commit" -> <<99, 111, 109, 109, 105, 116>>

RECURSIVE Decimal(_)
\* format!("{}", n) as bytes
Decimal(n) == IF n < 10 THEN <<48 + n>> ELSE Decimal(n \div 10) \o <<48 + (n % 10)>>

\* zlib.rs compress_object, before compression: "{kind} {len}\0" and the content
Envelope(kind, content) ==
    TagOf(kind) \o <<32>> \o Decimal(Len(content)) \o <<0>> \o content

StartsWith(bytes, tag) == Len(bytes) >= Len(tag) /\ SubSeq(bytes, 1, Len(tag)) = tag

\* the position of the first byte b, 0 when there is none
Find(bytes, b) ==
    IF \E i \in 1..Len(bytes) : bytes[i] = b
    THEN CHOOSE i \in 1..Len(bytes) : bytes[i] = b /\ \A j \in 1..(i - 1) : bytes[j] # b
    ELSE 0

\* the position of the first "\n\n", 0 when there is none
FindBlankLine(bytes) ==
    IF \E i \in 1..(Len(bytes) - 1) : bytes[i] = 10 /\ bytes[i + 1] = 10
    THEN CHOOSE i \in 1..(Len(bytes) - 1) :
            /\ bytes[i] = 10 /\ bytes[i + 1] = 10
            /\ \A j \in 1..(i - 1) : ~(bytes[j] = 10 /\ bytes[j + 1] = 10)
    ELSE 0

\* objtype.rs parse_meta: a kind tag, a space, digits, a NUL
parse_meta(bytes) ==
    LET kinds == {k \in {"blob", "tree", "commit"} : StartsWith(bytes, TagOf(k) \o <<32>>)}
        kind == CHOOSE k \in kinds : TRUE
        after == Drop(bytes, Len(TagOf(kind)) + 1)
        nul == Find(after, 0)
    IN IF kinds = {} THEN [ok |-> FALSE, kind |-> "", rest |-> bytes]
       ELSE IF nul < 2 \/ \E i \in 1..(nul - 1) : after[i] \notin 48..57
       THEN [ok |-> FALSE, kind |-> "", rest |-> bytes]
       ELSE [ok |-> TRUE, kind |-> kind, rest |-> Drop(after, nul)]

\* a decoded object, or the error of the decoding
NoObj(res) ==
    [res |-> res, kind |-> "", content |-> <<>>, entries |-> <<>>, tree_hash |-> <<>>,
     parent_hash |-> <<>>, author |-> <<>>, committer |-> <<>>, message |-> <<>>]

RECURSIVE ParseTreeEntries(_, _)
\* many0(TreeEntry::parse_from_bytes): mode up to the space, path up to the
\* NUL, 20 bytes of id; it stops at the first record that does not parse
ParseTreeEntries(input, acc) ==
    LET sp == Find(input, 32)
        nul == Find(Drop(input, sp), 0)
        end == sp + nul + 20
    IN IF sp = 0 \/ nul = 0 \/ Len(input) < end THEN [protos |-> acc, rest |-> input]
       ELSE ParseTreeEntries(
               Drop(input, end),
               Append(acc, [mode |-> SubSeq(input, 1, sp - 1),
                            path |-> SubSeq(input, sp + 1, sp + nul - 1),
                            hash |-> SubSeq(input, sp + nul + 1, end)]))

\* the digits of a mode token given as bytes
TokenOf(bytes) == [i \in 1..Len(bytes) |-> bytes[i] - 48]

\* TryFrom<Vec<u8>> for Tree
DecodeTree(bytes) ==
    LET meta == parse_meta(bytes)
        got == ParseTreeEntries(meta.rest, <<>>)
    IN IF ~meta.ok THEN NoObj("InvalidTree")
       ELSE IF got.rest # <<>> THEN NoObj("InvalidEntry")
       ELSE IF \E i \in 1..Len(got.protos) : FileModeFromBytes(TokenOf(got.protos[i].mode)) = 0
       THEN NoObj("InvalidFileMode")
       ELSE [NoObj("ok") EXCEPT
                !.kind = "tree",
                !.entries = [i \in 1..Len(got.protos) |->
                                [mode |-> FileModeFromBytes(TokenOf(got.protos[i].mode)),
                                 hash |-> hex_encode(got.protos[i].hash),
                                 path |-> got.protos[i].path]]]

\* From<Tree> for Vec<u8>: TreeEntry::into_iter of every entry
EncodeTree(entries) ==
    Flatten([i \in 1..Len(entries) |->
                [k \in 1..6 |-> 48 + FileModeStr(entries[i].mode)[k]] \o <<32>>
                \o entries[i].path \o <<0>> \o hex_decode(entries[i].hash)])

\* TryFrom<Vec<u8>> for Blob
DecodeBlob(bytes) ==
    IF ~parse_meta(bytes).ok THEN NoObj("InvalidObj")
    ELSE [NoObj("ok") EXCEPT !.kind = "blob", !.content = Drop(bytes, Find(bytes, 0))]

\* the field names of a commit as bytes, each with its space
TreeTag == <<116, 114, 101, 101, 32>>
ParentTag == <<112, 97, 114, 101, 110, 116, 32>>
AuthorTag == <<97, 117, 116, 104, 111, 114, 32>>
CommitterTag == <<99, 111, 109, 109, 105, 116, 116, 101, 114, 32>>
GpgsigTag == <<103, 112, 103, 115, 105, 103, 32>>

\* terminated(preceded(tag(name), take_until("\n")), tag("\n"))
TakeLine(input, name) ==
    IF StartsWith(input, name) /\ Find(Drop(input, Len(name)), 10) # 0
    THEN [ok |-> TRUE,
          val |-> SubSeq(input, Len(name) + 1, Len(name) + Find(Drop(input, Len(name)), 10) - 1),
          rest |-> Drop(input, Len(name) + Find(Drop(input, Len(name)), 10))]
    ELSE [ok |-> FALSE, val |-> <<>>, rest |-> input]

RECURSIVE TakeParents(_, _)
\* many0 of the parent lines
TakeParents(input, acc) ==
    IF ~TakeLine(input, ParentTag).ok THEN [vals |-> acc, rest |-> input]
    ELSE TakeParents(TakeLine(input, ParentTag).rest, Append(acc, TakeLine(input, ParentTag).val))

\* the optional gpgsig block, up to and with its "\n\n", is skipped
SkipGpgsig(input) ==
    IF StartsWith(input, GpgsigTag) /\ FindBlankLine(Drop(input, Len(GpgsigTag))) # 0
    THEN Drop(input, Len(GpgsigTag) + FindBlankLine(Drop(input, Len(GpgsigTag))) + 1)
    ELSE input

\* one "\n" before the message is skipped
SkipNewline(input) == IF StartsWith(input, <<10>>) THEN Drop(input, 1) ELSE input

\* Commit::parse_from_bytes after the committer line: the message
MessageOf(input) == SkipNewline(SkipGpgsig(input))

\* TryFrom<Vec<u8>> for Commit
DecodeCommit(bytes) ==
    LET meta == parse_meta(bytes)
        tree == TakeLine(meta.rest, TreeTag)
        parents == TakeParents(tree.rest, <<>>)
        author == TakeLine(parents.rest, AuthorTag)
        committer == TakeLine(author.rest, CommitterTag)
    IN IF ~meta.ok \/ ~tree.ok \/ ~author.ok \/ ~committer.ok THEN NoObj("InvalidCommit")
       ELSE [NoObj("ok") EXCEPT
                !.kind = "commit", !.tree_hash = tree.val, !.parent_hash = parents.vals,
                !.author = author.val, !.committer = committer.val,
                !.message = MessageOf(committer.rest)]

\* the message as From<Commit> for Vec<u8> writes it
WithNewline(message) ==
    IF message # <<>> /\ message[Len(message)] = 10 THEN message ELSE Append(message, 10)

\* From<Commit> for Vec<u8>
EncodeCommit(c) ==
    TreeTag \o c.tree_hash \o <<10>>
    \o Flatten([i \in 1..Len(c.parent_hash) |-> ParentTag \o c.parent_hash[i] \o <<10>>])
    \o AuthorTag \o c.author \o <<10>>
    \o CommitterTag \o c.committer \o <<10>>
    \o <<10>>
    \o WithNewline(c.message)

\* TryFrom<Vec<u8>> for Obj, as read_obj applies it to the decompressed file
DecodeObj(bytes) ==
    IF Find(bytes, 0) = 0 THEN NoObj("InvalidFileMode")
    ELSE IF ~parse_meta(SubSeq(bytes, 1, Find(bytes, 0))).ok THEN NoObj("InvalidTree")
    ELSE CASE parse_meta(bytes).kind = "blob" -> DecodeBlob(bytes)
           [] parse_meta(bytes).kind = "tree" -> DecodeTree(bytes)
           [] parse_meta(bytes).kind = "commit" -> DecodeCommit(bytes)

\* Into<Vec<u8>> for Obj, in the envelope write_object stores it with
EncodeObj(o) ==
    CASE o.kind = "blob" -> Envelope("blob", o.content)
      [] o.kind = "tree" -> Envelope("tree", EncodeTree(o.entries))
      [] o.kind = "commit" -> Envelope("commit", EncodeCommit(o))

\* the object buffers taken up: what git writes for blobs, trees and commits
MaxTreeEntries == 2

BlobBuffers == {Envelope("blob", c) : c \in {<<>>, <<104>>, <<104, 10>>, <<0, 104>>}}

\* the mode tokens git writes: "100644", "100755", "40000", "120000", "160000"
GitModeTokens ==
    {<<49, 48, 48, 54, 52, 52>>, <<49, 48, 48, 55, 53, 53>>, <<52, 48, 48, 48, 48>>,
     <<49, 50, 48, 48, 48, 48>>, <<49, 54, 48, 48, 48, 48>>}
RawIds == {[i \in 1..20 |-> 7 * i], [i \in 1..20 |-> (16 * i) % 256]}
TreeRecord(tok, path, id) == tok \o <<32>> \o path \o <<0>> \o id
TreeBuffers ==
    {Envelope("tree", <<>>)}
    \cup {Envelope("tree", TreeRecord(t, <<97>>, h)) : t \in GitModeTokens, h \in RawIds}
    \cup {Envelope("tree", TreeRecord(t1, <<97>>, h1) \o TreeRecord(t2, <<100>>, h2)) :
            t1 \in GitModeTokens, h1 \in RawIds, t2 \in GitModeTokens,
            h2 \in {h \in RawIds : MaxTreeEntries >= 2}}

\* a commit as git writes it, with or without a signature block
CommitContent(tree_hash, parent_hash, signed, message) ==
    TreeTag \o tree_hash \o <<10>>
    \o Flatten([i \in 1..Len(parent_hash) |-> ParentTag \o parent_hash[i] \o <<10>>])
    \o AuthorTag \o <<65>> \o <<10>>
    \o CommitterTag \o <<67>> \o <<10>>
    \o (IF signed THEN GpgsigTag \o <<83, 10, 32, 69, 10>> ELSE <<>>)
    \o <<10>> \o message
CommitBuffers ==
    {Envelope("commit", CommitContent(t, ps, g, m)) :
        t \in HexIds,
        ps \in {<<>>} \cup {<<h>> : h \in HexIds} \cup {<<h1, h2>> : h1 \in HexIds, h2 \in HexIds},
        g \in BOOLEAN,
        m \in {<<>>, <<109>>, <<109, 10>>, <<10, 109>>}}

\* read_obj on a stored buffer
DecodeAct ==
    /\ codec.phase = "buffer"
    /\ codec' = [codec EXCEPT !.phase = "decoded", !.first = DecodeObj(codec.bytes)]
    /\ UNCHANGED <<objects, refs, HEAD, index, ws, dirs, last, ixfile>>

\* the decoded object is encoded as write_object stores it
EncodeAct ==
    /\ codec.phase = "decoded"
    /\ codec.first.res = "ok"
    /\ codec' = [codec EXCEPT !.phase = "encoded", !.encoded = EncodeObj(codec.first)]
    /\ UNCHANGED <<objects, refs, HEAD, index, ws, dirs, last, ixfile>>

\* read_obj on the buffer just encoded
DecodeAgainAct ==
    /\ codec.phase = "encoded"
    /\ codec' = [codec EXCEPT !.phase = "again", !.again = DecodeObj(codec.encoded)]
    /\ UNCHANGED <<objects, refs, HEAD, index, ws, dirs, last, ixfile>>

InitObject ==
    /\ objects = <<>>
    /\ refs = [b \in Branches |-> NoRef]
    /\ HEAD = "master"
    /\ index = NoIndex
    /\ ws = [f \in Files |-> NoFile]
    /\ dirs = {}
    /\ last = [Edited EXCEPT !.cmd = "init"]
    /\ ixfile = NoIxFile
    /\ \E B \in BlobBuffers \cup TreeBuffers \cup CommitBuffers :
          codec = [NoCodec EXCEPT !.phase = "buffer", !.bytes = B]

NextObject == DecodeAct \/ EncodeAct \/ DecodeAgainAct

SpecObject == InitObject /\ [][NextObject]_vars

(* ------------------------- add of single paths ------------------------- *)
\* the arguments `add` is run with here: ".", a file, or the directory d
AddPathArgs == {<<<<>>>>} \cup {<<p>> : p \in Files} \cup {<<<<"d">>>>}

NextAdd ==
    \/ \E p \in EditFiles, c \in Contents : WsWrite(p, c)
    \/ WsRemove(<<"d">>)
    \/ \E args \in AddPathArgs : Add(args)

SpecAdd == Init /\ [][NextAdd]_vars


(* ------------------------ index files of any header --------------------- *)
\* the signatures and version numbers an index file is given here
Signatures == {<<68, 73, 82, 67>>, <<68, 73, 82, 88>>, <<84, 82, 69, 69>>}
Versions == {0, 2, 3, 4}

\* another program rewrites the first eight bytes of the index file
SetHeader(sig, version) ==
    /\ ixfile.phase = "written"
    /\ SubSeq(ixfile.bytes, 1, 8) # sig \o be_u32(version)
    /\ ixfile' = [ixfile EXCEPT !.bytes = sig \o be_u32(version) \o Drop(@, 8)]
    /\ UNCHANGED <<objects, refs, HEAD, index, ws, dirs, last, codec>>

NextIndexHeader ==
    \/ \E mode \in FileMode, hash \in HexIds, name \in IxNames : PushEntry(mode, hash, name)
    \/ WriteToFile
    \/ \E sig \in Signatures, version \in Versions : SetHeader(sig, version)
    \/ ReadFromFile
    \/ NewIndex

SpecIndexHeader == Init /\ [][NextIndexHeader]_vars

(* ------------------- switching with executable files -------------------- *)
NextSwitch ==
    \/ \E c \in Contents : WsWrite(<<"a">>, c)
    \/ WsWrite(<<"d", "b">>, <<1>>)
    \/ WsChmod(<<"d", "b">>)
    \/ WsRemove(<<"d">>)
    \/ \E args \in AddArgs : Add(args)
    \/ CommitAct
    \/ CheckoutB("dev")
    \/ \E b \in Branches : CheckoutAct(b)

SpecSwitch == Init /\ [][NextSwitch]_vars

(* ----------------------- merges of texts of any length ------------------- *)
\* the texts file a is given: no line, one line, two lines
Texts == {<<>>, <<1>>, <<2>>, <<1, 2>>, <<2, 1>>, <<1, 1>>}

\* write a, `add .`, `commit`
SnapText(t) == <<Write(<<"a">>, t), AddAll, CommitIt>>

\* master: A - X, dev: A - Y, each commit with its own text of a; on master
TextRepo(tA, tX, tY) ==
    SnapText(tA) \o <<NewBranch("dev")>> \o SnapText(tY) \o <<Switch("master")>> \o SnapText(tX)

TextScripts == {TextRepo(tA, tX, tY) : tA \in Texts, tX \in Texts, tY \in Texts}

InitMergeText == \E script \in TextScripts : InitFrom(RunScript(InitRepo, script))

NextMergeText ==
    \/ \E b \in Branches : MergeAct(b)
    \/ \E b \in Branches : CheckoutAct(b)

SpecMergeText == InitMergeText /\ [][NextMergeText]_vars

(* ------------------------- trees of any depth -------------------------- *)
MaxDeepTrees == 6

\* write-tree, while the store holds fewer than MaxDeepTrees trees
WriteTreeDeepAct ==
    /\ Cardinality(TreeIds(objects)) < MaxDeepTrees
    /\ Done(WriteTreeCmd(Cur), "write-tree", <<>>)

\* entries staged by name, one or two directories down as well
NextDeep ==
    \/ \E c \in Contents : WsWrite(<<"a">>, c)
    \/ UpdateIndexAddAct(<<<<"a">>>>)
    \/ \E h \in BlobIds(objects), name \in IxNames :
          UpdateIndexCacheinfoAct(<<1, 0, 0, 6, 4, 4>>, h, name)
    \/ UpdateIndexRmAct(<<<<"a">>>>)
    \/ WriteTreeDeepAct

SpecDeep == Init /\ [][NextDeep]_vars

(* --------------------------- checkout of paths -------------------------- *)
\* Checkout::restore_from_commit_for_tree: the files below a directory of the
\* commit's tree
restore_from_commit_for_tree(R, base_path, tree) ==
    restore_from_index_for_tree(R, base_path, tree)

\* Checkout::update_index: the first entry of that name takes the mode and id
\* of the tree record, or a new entry is pushed
update_index(R, entry_path, entry) ==
    IF ~R.index.exists THEN Fail(R, "FailedToReadFile")
    ELSE IF ~IndexReadable(R.index) THEN Fail(R, "panic")
    ELSE LET entries == R.index.entries
             i == FindName(entries, entry_path)
         IN Ok(write_to_file(R,
                 IF i > 0
                 THEN [entries EXCEPT ![i].mode = entry.mode, ![i].hash = entry.hash]
                 ELSE Append(entries, [mode |-> entry.mode, hash |-> entry.hash,
                                       name |-> entry_path])))

RECURSIVE restore_path_from_tree(_, _, _, _)
\* Checkout::restore_path_from_tree, the loop over the records of `tree`
restore_path_from_tree(R, path, tree, base_path) ==
    IF path = <<>> \/ tree = <<>> THEN Ok(R)
    ELSE LET entry == Head(tree)
             entry_path == base_path \o entry.path
             remaining_path == Tail(path)
             restored ==
                IF entry.mode = Tree
                THEN LET R1 == create_dir_all(R, entry_path)
                     IN IF ~HasTree(R1.objects, entry.hash) THEN Fail(R1, "InvalidCommand")
                        ELSE restore_from_commit_for_tree(R1, entry_path,
                                                          read_tree(R1.objects, entry.hash))
                ELSE IF entry.mode = Blob
                THEN IF ~HasBlob(R.objects, entry.hash) THEN Fail(R, "InvalidCommand")
                     ELSE IF ~CanWrite(R, entry_path) THEN Fail(R, "FailedToWriteFile")
                     ELSE Ok(FsWrite(R, entry_path, R.objects[entry.hash].lines))
                ELSE Ok(R)
             step ==
                IF entry.path # <<Head(path)>> THEN Ok(R)
                ELSE IF remaining_path = <<>>
                THEN IF restored.res # "ok" THEN restored
                     ELSE update_index(restored.r, entry_path, entry)
                ELSE IF entry.mode = Tree
                THEN IF ~HasTree(R.objects, entry.hash) THEN Fail(R, "InvalidCommand")
                     ELSE restore_path_from_tree(R, remaining_path,
                                                 read_tree(R.objects, entry.hash), entry_path)
                ELSE Ok(R)
         IN IF step.res # "ok" THEN step
            ELSE restore_path_from_tree(step.r, path, Tail(tree), base_path)

\* Checkout::restore_from_commit with one path
restore_from_commit(R, commit_hash, path) ==
    IF ~HasCommitTree(R.objects, commit_hash) THEN Fail(R, "InvalidCommand")
    ELSE restore_path_from_tree(R, path,
                                read_tree(R.objects, R.objects[commit_hash].tree_hash), <<>>)

\* Checkout::run, `checkout HEAD <path>`: the path is restored from the
\* commit, then once more from the index
CheckoutHead(R, path) ==
    IF R.refs[R.HEAD] = NoRef THEN Fail(R, "FileNotFound")
    ELSE LET rc == restore_from_commit(R, R.refs[R.HEAD], path)
         IN IF rc.res # "ok" THEN Via(rc, "commit")
            ELSE Via(restore_from_index(rc.r, <<path>>), "commit")

\* the paths handed to checkout
PathArgs == {<<"a">>, <<"d">>, <<"d", "b">>}

CheckoutPathAct(p) == Done(CheckoutRun(Cur, FALSE, p), "checkout", p)
CheckoutHeadAct(p) == Done(CheckoutHead(Cur, p), "checkout HEAD", p)

NextPaths ==
    \/ \E p \in EditFiles, c \in Contents : WsWrite(p, c)
    \/ WsChmod(<<"a">>)
    \/ \E args \in AddArgs : Add(args)
    \/ CommitAct
    \/ \E p \in PathArgs : CheckoutPathAct(p)
    \/ \E p \in PathArgs : CheckoutHeadAct(p)

SpecPaths == Init /\ [][NextPaths]_vars

(* -------------------------------- branch -------------------------------- *)
\* Branch::run, `branch <name>`: the tip of the current branch is read first
BranchRun(R, name) ==
    IF R.refs[R.HEAD] = NoRef THEN Fail(R, "FileNotFound")
    ELSE IF R.refs[name] # NoRef THEN Fail(R, "InvalidCommand")
    ELSE Ok([R EXCEPT !.refs[name] = R.refs[R.HEAD]])

BranchAct(b) == Done(BranchRun(Cur, b), "branch", <<b>>)

NextBranch ==
    \/ \E p \in EditFiles, c \in Contents : WsWrite(p, c)
    \/ \E args \in AddArgs : Add(args)
    \/ CommitAct
    \/ \E b \in Branches : CheckoutB(b)
    \/ \E b \in Branches : CheckoutAct(b)
    \/ \E b \in Branches : BranchAct(b)

SpecBranch == Init /\ [][NextBranch]_vars

(* ------------------ restoring trees with executable files ---------------- *)
NextRestore ==
    \/ \E c \in Contents : WsWrite(<<"a">>, c)
    \/ WsWrite(<<"d", "b">>, <<1>>)
    \/ WsChmod(<<"a">>)
    \/ \E args \in AddArgs : Add(args)
    \/ CommitAct
    \/ CheckoutB("dev")
    \/ \E b \in Branches : CheckoutAct(b)

SpecRestore == Init /\ [][NextRestore]_vars

(* ------------------------- entries built with new ----------------------- *)
\* the mode values IndexEntry::new is called with here: the five of FileMode,
\* 0, 0o644, 0o100664 and 0o40755
NewModes == FileMode \cup {0, 420, 33204, 16877}

\* index.add_entry(IndexEntry::new(mode, hash, name)): the panic of new
\* leaves the entries as they were
NewEntry(mode, hash, name) ==
    /\ ixfile.phase = "new"
    /\ Len(ixfile.entries) < MaxIndexLen
    /\ ixfile' = IF IndexEntryNewOk(mode)
                 THEN [ixfile EXCEPT !.entries = Append(@, [mode |-> mode, hash |-> hash,
                                                            name |-> name])]
                 ELSE [ixfile EXCEPT !.phase = "panic",
                                     !.back = [res |-> "panic",
                                               entries |-> <<[mode |-> mode, hash |-> hash,
                                                              name |-> name]>>]]
    /\ UNCHANGED <<objects, refs, HEAD, index, ws, dirs, last, codec>>

\* the program is run again
Restart ==
    /\ ixfile.phase = "panic"
    /\ ixfile' = NoIxFile
    /\ UNCHANGED <<objects, refs, HEAD, index, ws, dirs, last, codec>>

NextEntry ==
    \/ \E mode \in NewModes, hash \in HexIds, name \in IxNames : NewEntry(mode, hash, name)
    \/ Restart

SpecEntry == Init /\ [][NextEntry]_vars

(* -------------------------- reading object files ------------------------ *)
\* an object file below .git/objects: absent, or present with a compressed
\* stream that the decoder accepts (giving `bytes`) or reports as damaged
NoObjFile == [exists |-> FALSE, damaged |-> FALSE, bytes |-> <<>>]
ObjFile(bytes) == [exists |-> TRUE, damaged |-> FALSE, bytes |-> bytes]
DamagedFile == [exists |-> TRUE, damaged |-> TRUE, bytes |-> <<>>]

\* the outcome of a read: the error kind, the io::ErrorKind of an io::Error,
\* the part of the message that depends on the cause, and the object
ReadErr(res, io, text) == [res |-> res, io |-> io, text |-> text, obj |-> NoObj(res)]
ReadOk(obj) == [res |-> "ok", io |-> "", text |-> "", obj |-> obj]

\* zlib.rs decompress_file_as_bytes: open and read the file, then inflate it
decompress_file_as_bytes(f) ==
    IF ~f.exists THEN ReadErr("io", "NotFound", "NotFound")
    ELSE IF f.damaged THEN ReadErr("io", "decoder", "decoder")
    ELSE ReadOk([NoObj("ok") EXCEPT !.content = f.bytes])

\* fs.rs read_obj
read_obj(f) ==
    IF decompress_file_as_bytes(f).res # "ok" THEN decompress_file_as_bytes(f)
    ELSE IF DecodeObj(f.bytes).res # "ok"
    THEN ReadErr(DecodeObj(f.bytes).res, "", DecodeObj(f.bytes).res)
    ELSE ReadOk(DecodeObj(f.bytes))

\* TryFrom<Obj> for Blob, Tree, Commit: the error for an object of another kind
NotA(T) ==
    CASE T = "blob" -> "NotABBlob" [] T = "tree" -> "NotATTree" [] T = "commit" -> "NotACCommit"

\* fs.rs read_object::<T>: every error of read_obj becomes InvalidObj, with
\* the text of the error appended to "fail to read {T} object {hash}"
read_object(f, T) ==
    IF read_obj(f).res # "ok" THEN ReadErr("InvalidObj", "", read_obj(f).text)
    ELSE IF read_obj(f).obj.kind # T THEN ReadErr(NotA(T), "", "")
    ELSE read_obj(f)

\* Checkout::read_tree, read_blob and the first read of read_commit: every
\* error becomes InvalidCommand("failed to parse {T} data for {hash}")
checkout_read(f, T) ==
    IF read_object(f, T).res # "ok" THEN ReadErr("InvalidCommand", "", "")
    ELSE read_object(f, T)

\* buffers whose header parse_meta rejects: empty, no NUL, an unknown kind
\* tag, no length, a length that is no number
BadHeaders ==
    {<<>>, TagOf("blob") \o <<32, 49>>, <<116, 97, 103, 32, 48, 0>>,
     TagOf("tree") \o <<32, 0>>, TagOf("commit") \o <<32, 120, 0>>,
     TagOf("blob") \o <<48, 0>>}

\* the object files read here
ObjFiles ==
    {NoObjFile, DamagedFile}
    \cup {ObjFile(B) : B \in BadHeaders}
    \cup {ObjFile(B) : B \in BlobBuffers}
    \cup {ObjFile(Envelope("tree", <<>>))}
    \cup {ObjFile(Envelope("commit", CommitContent(t, ps, FALSE, <<109, 10>>))) :
            t \in HexIds, ps \in {<<>>} \cup {<<h>> : h \in HexIds}}

ObjKinds == {"blob", "tree", "commit"}

\* one read of the file and one of an id with no file, by the same function
ReadAct(via, T, got, absent) ==
    /\ codec.phase = "file"
    /\ codec' = [codec EXCEPT !.phase = via, !.want = T, !.first = got.obj,
                              !.encoded = <<got.res, got.io, got.text>>,
                              !.again = <<absent.res, absent.io, absent.text>>]
    /\ UNCHANGED <<objects, refs, HEAD, index, ws, dirs, last, ixfile>>

ReadObjAct == ReadAct("read_obj", "", read_obj(codec.bytes), read_obj(NoObjFile))

ReadObjectAct(T) ==
    ReadAct("read_object", T, read_object(codec.bytes, T), read_object(NoObjFile, T))

CheckoutReadAct(T) ==
    ReadAct("checkout", T, checkout_read(codec.bytes, T), checkout_read(NoObjFile, T))

\* the file is replaced by another one
ReplaceAct(f) ==
    /\ codec.phase # "file"
    /\ codec' = [NoCodec EXCEPT !.phase = "file", !.bytes = f]
    /\ UNCHANGED <<objects, refs, HEAD, index, ws, dirs, last, ixfile>>

InitRead ==
    /\ objects = <<>>
    /\ refs = [b \in Branches |-> NoRef]
    /\ HEAD = "master"
    /\ index = NoIndex
    /\ ws = [f \in Files |-> NoFile]
    /\ dirs = {}
    /\ last = [Edited EXCEPT !.cmd = "init"]
    /\ ixfile = NoIxFile
    /\ codec = [NoCodec EXCEPT !.phase = "file", !.bytes = NoObjFile]

NextRead ==
    \/ ReadObjAct
    \/ \E T \in ObjKinds : ReadObjectAct(T)
    \/ \E T \in ObjKinds : CheckoutReadAct(T)
    \/ \E f \in ObjFiles : ReplaceAct(f)

SpecRead == InitRead /\ [][NextRead]_vars

(* --------------------------- files of any size -------------------------- *)
\* the contents a file is written with here: an empty file too
StoreContents == Contents \cup {<<>>}

NextStore ==
    \/ \E p \in EditFiles, c \in StoreContents : WsWrite(p, c)
    \/ WsRemove(<<"d">>)
    \/ \E args \in AddArgs : Add(args)
    \/ CommitAct

SpecStore == Init /\ [][NextStore]_vars

(* ======================== the claims, C1 to C30 ========================= *)
\* the first-parent chain of a commit of the store, oldest first
Chain(h) == get_all_ancestor(objects, h, <<>>)

\* the files of a commit: the blob records of its tree, with full paths
LeavesOf(objs, c) == FlattenTree(objs, read_tree(objs, objs[c].tree_hash), <<>>)
LeafPaths(L) == {L[i].path : i \in 1..Len(L)}
LeafId(L, p) == L[CHOOSE i \in 1..Len(L) : L[i].path = p].hash

CommitIds(objs) == {h \in DOMAIN objs : objs[h].kind = "commit"}

\* the step just taken was `merge b`
MergeStepOf(b) == last'.cmd = "merge" /\ last'.arg = <<b>>

BothTips(b) == refs[HEAD] # NoRef /\ refs[b] # NoRef

\* the current tip is a strict first-parent ancestor of the tip of b
FastForwardCase(b) ==
    /\ BothTips(b)
    /\ refs[HEAD] # refs[b]
    /\ IsPrefix(Chain(refs[HEAD]), Chain(refs[b]))

\* the tip of b lies on the first-parent chain of the current tip
UpToDateCase(b) == BothTips(b) /\ refs[b] \in SeqToSet(Chain(refs[HEAD]))

\* the two tips share a first commit and neither chain is a prefix of the other
DivergedCase(b) ==
    /\ BothTips(b)
    /\ Chain(refs[HEAD])[1] = Chain(refs[b])[1]
    /\ ~IsPrefix(Chain(refs[HEAD]), Chain(refs[b]))
    /\ ~IsPrefix(Chain(refs[b]), Chain(refs[HEAD]))

\* the paths both sides hold with different ids
Conflicts(LX, LY) ==
    {p \in LeafPaths(LX) \cap LeafPaths(LY) : LeafId(LX, p) # LeafId(LY, p)}

WsHolds(w, p, id) == w[p].exists /\ hash_object(w[p].bytes) = id

Staged(idx, p, id) ==
    \E i \in 1..Len(idx.entries) : idx.entries[i].name = p /\ idx.entries[i].hash = id

\* C1: a fast-forward merge (the current tip A a strict first-parent ancestor
\* of the merged tip C) succeeds, leaves the current branch ref at C and HEAD
\* on the current branch, creates no commit object, and leaves the workspace
\* matching C's tree: every path of C's tree holds C's content, and every
\* path of A's tree that C's tree lacks is gone from the workspace.
C1_FastForward ==
    [][\A b \in Branches :
        (MergeStepOf(b) /\ FastForwardCase(b)) =>
            LET LA == LeavesOf(objects, refs[HEAD])
                LC == LeavesOf(objects, refs[b])
            IN /\ last'.res = "ok"
               /\ HEAD' = HEAD
               /\ refs'[HEAD] = refs[b]
               /\ CommitIds(objects') = CommitIds(objects)
               /\ \A p \in LeafPaths(LC) : WsHolds(ws', p, LeafId(LC, p))
               /\ \A p \in LeafPaths(LA) \ LeafPaths(LC) : ~ws'[p].exists]_vars

\* L is LB with the one file f added
AddsOnly(L, LB, f) ==
    /\ f \notin LeafPaths(LB)
    /\ LeafPaths(L) = LeafPaths(LB) \cup {f}
    /\ \A p \in LeafPaths(LB) : LeafId(L, p) = LeafId(LB, p)

\* C2: when the current branch X added f1 to the base and the merged branch Y
\* added f2 to it, `merge Y` succeeds and creates exactly one commit, with
\* parents [tip of X, tip of Y] and a tree holding f1 and f2; the current
\* branch ref is that commit, and the workspace holds f1 and f2 with their
\* committed content.
C2_DisjointAdds ==
    [][\A b \in Branches, f1 \in Files, f2 \in Files :
        LET X == refs[HEAD]
            Y == refs[b]
            LB == LeavesOf(objects, first_same_commit(objects, X, Y))
            LX == LeavesOf(objects, X)
            LY == LeavesOf(objects, Y)
            new == CommitIds(objects') \ CommitIds(objects)
        IN (/\ MergeStepOf(b)
            /\ DivergedCase(b)
            /\ f1 # f2
            /\ AddsOnly(LX, LB, f1)
            /\ AddsOnly(LY, LB, f2)) =>
               /\ last'.res = "ok"
               /\ Cardinality(new) = 1
               /\ \A m \in new :
                    /\ objects'[m].parent_hash = <<X, Y>>
                    /\ {f1, f2} \subseteq LeafPaths(LeavesOf(objects', m))
                    /\ LeafId(LeavesOf(objects', m), f1) = LeafId(LX, f1)
                    /\ LeafId(LeavesOf(objects', m), f2) = LeafId(LY, f2)
                    /\ refs'[HEAD] = m
               /\ HEAD' = HEAD
               /\ WsHolds(ws', f1, LeafId(LX, f1))
               /\ WsHolds(ws', f2, LeafId(LY, f2))]_vars


\* the id the one side holding a non-conflicting path gives it
SideId(LX, LY, p) == IF p \in LeafPaths(LX) THEN LeafId(LX, p) ELSE LeafId(LY, p)

HasMarkers(bytes) == {-1, -2, -3} \subseteq SeqToSet(bytes)

\* C4: after a merge that ends in conflict, the workspace file of every
\* conflicting path holds the inline conflict markers, and the index keeps
\* both competing entries (nothing is rolled back).
C4_ConflictWorkspace ==
    [][\A b \in Branches :
        LET LX == LeavesOf(objects, refs[HEAD])
            LY == LeavesOf(objects, refs[b])
        IN (/\ MergeStepOf(b)
            /\ DivergedCase(b)
            /\ Conflicts(LX, LY) # {}) =>
               \A p \in Conflicts(LX, LY) :
                    /\ ws'[p].exists
                    /\ HasMarkers(ws'[p].bytes)
                    /\ Staged(index', p, LeafId(LX, p))
                    /\ Staged(index', p, LeafId(LY, p))]_vars

\* the length of the longest common prefix, by position, of two sequences
LongestCommonPrefix(s, t) ==
    CHOOSE k \in 0..Len(s) :
        /\ k <= Len(t)
        /\ SubSeq(s, 1, k) = SubSeq(t, 1, k)
        /\ \A j \in (k + 1)..Len(s) : j > Len(t) \/ SubSeq(s, 1, j) # SubSeq(t, 1, j)

RepoUnchanged == UNCHANGED <<objects, refs, HEAD, index, ws, dirs>>

\* C5: the merge base of any two commits is the last commit of the longest
\* common prefix of their first-parent chains; `merge` fails with the
\* NoSameAncestor error, and not with the merge-conflict error, exactly when
\* that prefix is empty, and then changes no ref, index or workspace state.
C5_AncestorSearch ==
    [][/\ \A h1 \in CommitIds(objects), h2 \in CommitIds(objects) :
            LET k == LongestCommonPrefix(Chain(h1), Chain(h2))
            IN first_same_commit(objects, h1, h2) = IF k = 0 THEN NoHash ELSE Chain(h1)[k]
       /\ \A b \in Branches :
            (MergeStepOf(b) /\ BothTips(b)) =>
                LET k == LongestCommonPrefix(Chain(refs[HEAD]), Chain(refs[b]))
                IN /\ (last'.res = "NoSameAncestor") <=> (k = 0)
                   /\ k = 0 => last'.res # "MergeConflict" /\ RepoUnchanged]_vars

\* C6: when the merged tip lies on the first-parent chain of the current tip,
\* `merge` succeeds and changes nothing: refs, HEAD, the index file, the
\* workspace and the object store are as before.
C6_UpToDate ==
    [][\A b \in Branches :
        (MergeStepOf(b) /\ UpToDateCase(b)) => last'.res = "ok" /\ RepoUnchanged]_vars

\* the last command was a merge of a tip that is a strict first-parent
\* ancestor of the current tip
C6_Witness ==
    /\ last.cmd = "merge"
    /\ last.res = "ok"
    /\ last.theirs # NoRef
    /\ last.ours # last.theirs
    /\ last.theirs \in SeqToSet(get_all_ancestor(objects, last.ours, <<>>))


\* the entry the index holds for a path staged once
EntryFor(p) == index.entries[FindName(index.entries, p)]

\* p is staged as a file, and the commit HEAD names records it with the
\* staged id
StagedAndCommitted(p) ==
    /\ index.exists
    /\ refs[HEAD] # NoRef
    /\ p \in Names(index.entries)
    /\ EntryFor(p).mode \in {Blob, Exec}
    /\ p \in LeafPaths(LeavesOf(objects, refs[HEAD]))
    /\ LeafId(LeavesOf(objects, refs[HEAD]), p) = EntryFor(p).hash

\* the workspace file of p holds other content than the one staged
EditedSinceStaged(p) == ws[p].exists /\ hash_object(ws[p].bytes) # EntryFor(p).hash

\* C7: when a staged and committed file, regular or executable, has been
\* edited in the workspace without re-staging, is_workspace_modified returns
\* true; when every staged file is in the workspace with its staged content,
\* it returns false.
C7_ModificationDetection ==
    /\ (\E p \in Files : StagedAndCommitted(p) /\ EditedSinceStaged(p)) =>
            is_workspace_modified(Cur) = "true"
    /\ (/\ \E p \in Files : StagedAndCommitted(p)
        /\ \A p \in Names(index.entries) : ws[p].exists /\ ~EditedSinceStaged(p)) =>
            is_workspace_modified(Cur) = "false"

\* the same for files staged as regular files alone
C7_RegularFiles ==
    /\ (\E p \in Files : /\ StagedAndCommitted(p)
                          /\ EntryFor(p).mode = Blob
                          /\ EditedSinceStaged(p)) =>
            is_workspace_modified(Cur) = "true"
    /\ (/\ \E p \in Files : StagedAndCommitted(p)
        /\ \A p \in Names(index.entries) : ws[p].exists /\ ~EditedSinceStaged(p)) =>
            is_workspace_modified(Cur) = "false"


\* the step just taken was `checkout b`
SwitchStepOf(b) == last'.cmd = "checkout" /\ last'.arg = <<b>>

\* the workspace differs from the index: a staged file is gone or holds
\* other content
WorkspaceDirty ==
    \E i \in 1..Len(index.entries) :
        LET p == index.entries[i].name
        IN ~ws[p].exists \/ hash_object(ws[p].bytes) # index.entries[i].hash

\* the index differs from the files the current tip records
IndexDirty ==
    LET L == LeavesOf(objects, refs[HEAD])
    IN \/ Names(index.entries) # LeafPaths(L)
       \/ \E i \in 1..Len(index.entries) :
             /\ index.entries[i].name \in LeafPaths(L)
             /\ index.entries[i].hash # LeafId(L, index.entries[i].name)

\* `checkout b` names another, existing branch and there are uncommitted changes
DirtySwitchCase(b) ==
    /\ b # HEAD
    /\ BothTips(b)
    /\ index.exists
    /\ WorkspaceDirty \/ IndexDirty

\* what survives a switch: every entry staged before is staged with the same
\* id, every file of the target tree not staged before is staged with the
\* tree's id, and no workspace file that differs from its entry is touched
LocalStateSurvives(b) ==
    LET LT == LeavesOf(objects, refs[b])
    IN /\ \A i \in 1..Len(index.entries) :
            Staged(index', index.entries[i].name, index.entries[i].hash)
       /\ \A p \in LeafPaths(LT) \ Names(index.entries) : Staged(index', p, LeafId(LT, p))
       /\ \A i \in 1..Len(index.entries) :
            LET p == index.entries[i].name
            IN (ws[p].exists /\ hash_object(ws[p].bytes) # index.entries[i].hash) =>
                  ws'[p] = ws[p]

\* C8: `checkout b` with uncommitted changes (workspace or index modified
\* against the current branch) succeeds and ends with HEAD naming b; the
\* target tree has been merged into the index and the index into the
\* workspace, and the uncommitted local state survives.
C8_DirtySwitch ==
    [][\A b \in Branches :
        (SwitchStepOf(b) /\ DirtySwitchCase(b)) =>
            /\ last'.res = "ok"
            /\ HEAD' = b
            /\ LocalStateSurvives(b)]_vars

\* the same, for the switches in which every directory a staged path lies in
\* is present in the workspace
C8_DirectoriesPresent ==
    [][\A b \in Branches :
        (/\ SwitchStepOf(b)
         /\ DirtySwitchCase(b)
         /\ \A p \in Names(index.entries) \cup LeafPaths(LeavesOf(objects, refs[b])) :
                Len(p) > 1 => Parent(p) \in dirs) =>
            /\ last'.res = "ok"
            /\ HEAD' = b
            /\ LocalStateSurvives(b)]_vars


\* C10: in every index file the commands write, no two entries have the
\* same path.
C10_PathUnique ==
    index.exists => Cardinality(Names(index.entries)) = Len(index.entries)


\* the entries written have pairwise distinct paths
UniquePaths(entries) == Cardinality(Names(entries)) = Len(entries)

\* C9: an index whose entries have unique paths and recognized modes, written
\* to a file and read back, gives the same entries (mode, id, path) in the
\* same order.
C9_IndexRoundTrip ==
    (/\ ixfile.phase = "read"
     /\ UniquePaths(ixfile.entries)
     /\ \A i \in 1..Len(ixfile.entries) : ixfile.entries[i].mode \in FileMode) =>
        ixfile.back.res = "ok" /\ ixfile.back.entries = ixfile.entries

\* the same for the four modes IndexEntry::new accepts
C9_AcceptedModes ==
    (/\ ixfile.phase = "read"
     /\ UniquePaths(ixfile.entries)
     /\ \A i \in 1..Len(ixfile.entries) : IndexEntryNewOk(ixfile.entries[i].mode)) =>
        ixfile.back.res = "ok" /\ ixfile.back.entries = ixfile.entries


\* the step just taken was a successful `add p` of one path p on a repository
\* that had an index
AddStep == last'.cmd = "add" /\ last'.res = "ok" /\ last'.arg # <<>> /\ index.exists

\* C11: after `add p` every entry the index held for a path other than p (and
\* not below p) is still in the rewritten index with the same mode and id.
C11_AddKeepsEntries ==
    [][AddStep =>
          \A i \in 1..Len(index.entries) :
              ~IsPrefix(last'.arg, index.entries[i].name) =>
                  \E j \in 1..Len(index'.entries) : index'.entries[j] = index.entries[i]]_vars


\* the commit message with the newline encoding appends when it lacks one
Normalized(o) == IF o.kind = "commit" THEN [o EXCEPT !.message = WithNewline(@)] ELSE o

\* C12: for a valid blob, tree or commit buffer B, decoding what decode(B)
\* encodes to succeeds and gives decode(B) again, up to the newline appended
\* to a commit message that lacks one.
C12_ObjectRoundTrip ==
    codec.phase \in {"decoded", "encoded", "again"} =>
        /\ codec.first.res = "ok"
        /\ codec.phase = "again" => codec.again = Normalized(codec.first)

\* the same for the buffers that hold no directory record
C12_NoDirectoryRecord ==
    (/\ codec.phase = "again"
     /\ \A i \in 1..Len(codec.first.entries) : codec.first.entries[i].mode # Tree) =>
        codec.again = Normalized(codec.first)


\* the kind tags of the envelope: 'b' for blob (as hash_object writes it), 't'
\* for tree, 'c' for commit
KindTag(kind) == CASE kind = "blob" -> 66 [] kind = "tree" -> 84 [] kind = "commit" -> 67

\* the content write_object was given for a stored object
ContentOf(obj) ==
    CASE obj.kind = "blob" -> obj.lines
      [] obj.kind = "tree" -> TreeBytes(obj.entries)
      [] obj.kind = "commit" -> CommitBytes(obj.tree_hash, obj.parent_hash, obj.message)

\* "{kind} {length}\0{content}" with the object's own kind
OwnEnvelope(obj) == <<KindTag(obj.kind), Len(ContentOf(obj))>> \o ContentOf(obj)

\* C13: every stored object, blob, tree or commit, is stored under the
\* digest of its own envelope "{kind} {length}\0{content}".
C13_ContentAddressing ==
    \A h \in DOMAIN objects : h = sha_hash(OwnEnvelope(objects[h]))

\* the same for the blobs alone
C13_Blobs ==
    \A h \in DOMAIN objects :
        objects[h].kind = "blob" => h = sha_hash(OwnEnvelope(objects[h]))

\* C14: no step changes the object stored under an id the store already
\* holds, or removes one: writing content that is already stored gives the
\* id it had and leaves every stored object as it was.
C14_StoreImmutable ==
    [][\A h \in DOMAIN objects : h \in DOMAIN objects' /\ objects'[h] = objects[h]]_vars

\* the same for the steps that write no empty content over the empty tree, or
\* the empty tree over it
C14_NonEmptyContent ==
    [][(\A h \in DOMAIN objects' : ContentOf(objects'[h]) # <<>>) =>
          \A h \in DOMAIN objects : h \in DOMAIN objects' /\ objects'[h] = objects[h]]_vars

\* no step removes an object
C14_NoRemoval == [][DOMAIN objects \subseteq DOMAIN objects']_vars

\* the file read is present and corrupt: a damaged stream or a bad header
CorruptRead ==
    /\ codec.phase \in {"read_obj", "read_object", "checkout"}
    /\ codec.bytes.exists
    /\ codec.bytes.damaged \/ codec.bytes.bytes \in BadHeaders

\* the error kind of an outcome: the GitError variant, or the io::ErrorKind
KindOf(outcome) == <<outcome[1], outcome[2]>>

\* C15: a read of a corrupt object file and a read of an id with no file
\* both fail, and with different error kinds, at read_obj, at read_object
\* and at the callers in checkout.
C15_MissingVsCorrupt ==
    CorruptRead =>
        /\ codec.encoded[1] # "ok"
        /\ codec.again[1] # "ok"
        /\ KindOf(codec.encoded) # KindOf(codec.again)

\* both reads fail at every one of the three
C15_BothFail == CorruptRead => codec.encoded[1] # "ok" /\ codec.again[1] # "ok"

\* the error kinds differ at read_obj
C15_AtReadObj ==
    (CorruptRead /\ codec.phase = "read_obj") => KindOf(codec.encoded) # KindOf(codec.again)

\* the index file just read has another signature than "DIRC"
BadSignature == ixfile.phase = "read" /\ SubSeq(ixfile.bytes, 1, 4) # <<68, 73, 82, 67>>
\* the index file just read has another version than 2
BadVersion == ixfile.phase = "read" /\ from_be_bytes(SubSeq(ixfile.bytes, 5, 8)) # 2

\* C16: read_from_file gives the error for a corrupt file, and no Index, for
\* every index file whose signature is not "DIRC" or whose version is not 2.
C16_HeaderValidated ==
    (BadSignature \/ BadVersion) => ixfile.back.res = "InvalidData"

\* the same for the signature alone
C16_Signature == BadSignature => ixfile.back.res = "InvalidData"

\* C17: IndexEntry::new accepts each of the five modes of FileMode (100644,
\* 100755, 040000, 120000, 160000) and rejects every other mode: it panics
\* only on a mode that is none of the five, and every entry it built has one
\* of the five.
C17_RecognizedModes ==
    /\ ixfile.phase = "panic" => ixfile.back.entries[1].mode \notin FileMode
    /\ \A i \in 1..Len(ixfile.entries) : ixfile.entries[i].mode \in FileMode

\* every mode that is none of the five is rejected
C17_OthersRejected == \A i \in 1..Len(ixfile.entries) : ixfile.entries[i].mode \in FileMode

\* the modes rejected are the submodule mode and those that are none of the five
C17_OnlySubmodule ==
    ixfile.phase = "panic" =>
        ixfile.back.entries[1].mode = Commit \/ ixfile.back.entries[1].mode \notin FileMode

\* the step just taken was a checkout of another branch that came to compare
\* the index with the tree of the current commit
SwitchCompared == last'.cmd = "checkout" /\ last'.via \in {"clean", "dirty"}

\* the tree records of the current commit, and its leaves at any depth
HeadRecords == read_tree(objects, objects[refs[HEAD]].tree_hash)
HeadLeaves == LeavesOf(objects, refs[HEAD])

\* the index has the paths of the leaves L and their ids
SameAsLeaves(entries, L) ==
    /\ Names(entries) = LeafPaths(L)
    /\ \A i \in 1..Len(entries) : entries[i].hash = LeafId(L, entries[i].name)

\* C18: is_index_modified gives false exactly when the paths of the index
\* are the leaf paths of the flattened tree and every path has the same id
\* on both sides, also for a tree with subdirectories.
C18_IndexModified ==
    [][SwitchCompared =>
          (is_index_modified(index.entries, HeadRecords)
              <=> ~SameAsLeaves(index.entries, HeadLeaves))]_vars

\* the same for the trees that hold no subdirectory
C18_FlatTrees ==
    [][(SwitchCompared /\ \A i \in 1..Len(HeadRecords) : HeadRecords[i].mode # Tree) =>
          (is_index_modified(index.entries, HeadRecords)
              <=> ~SameAsLeaves(index.entries, HeadLeaves))]_vars

\* the step just taken was a checkout of another branch that, with local
\* changes present, merged the tree of that branch into the index
TreeMergedIntoIndex ==
    /\ last'.cmd = "checkout"
    /\ last'.via = "dirty"
    /\ HasCommitTree(objects, last'.theirs)

\* the tree records of the branch switched to, and its leaves at any depth
TheirRecords == read_tree(objects, objects[last'.theirs].tree_hash)
TheirLeaves == LeavesOf(objects, last'.theirs)

\* what merge_tree_into_index makes of the index
MergedEntries == merge_tree_into_index(objects, TheirRecords, <<>>, index.entries).entries

\* every entry of before is still there, and it is the one found for its
\* path; every leaf whose path was not staged is staged with the mode and id
\* of the tree
KeepsAndStages(before, after, L) ==
    /\ \A i \in 1..Len(before) :
          /\ FindName(after, before[i].name) # 0
          /\ after[FindName(after, before[i].name)] = before[FindName(before, before[i].name)]
    /\ \A k \in 1..Len(L) :
          L[k].path \notin Names(before) =>
              \E j \in 1..Len(after) :
                  /\ after[j].name = L[k].path
                  /\ after[j].mode = L[k].mode
                  /\ after[j].hash = L[k].hash

\* C19: merge_tree_into_index keeps every entry the index held, with its
\* mode and id, also where the tree holds another id for the path, and
\* stages every file leaf of the tree, at any depth, whose path the index
\* lacked, with the mode and id of the tree.
C19_MergeTreeIntoIndex ==
    [][TreeMergedIntoIndex => KeepsAndStages(index.entries, MergedEntries, TheirLeaves)]_vars

\* the same for the trees whose leaves are all of mode 100644
C19_PlainLeaves ==
    [][(TreeMergedIntoIndex /\ \A k \in 1..Len(TheirLeaves) : TheirLeaves[k].mode = Blob) =>
          KeepsAndStages(index.entries, MergedEntries, TheirLeaves)]_vars

\* the step just taken was a checkout of another branch that, with local
\* changes present, wrote the merged index and went on to
\* merge_index_into_workspace
IndexMergedIntoWorkspace ==
    /\ TreeMergedIntoIndex
    /\ IndexReadable(index)
    /\ merge_tree_into_index(objects, TheirRecords, <<>>, index.entries).res = "ok"

\* a file with local content stays as it is; any other file holds the
\* content recorded for it
WrittenOrKept(entry) ==
    IF ws[entry.name].exists /\ hash_object(ws[entry.name].bytes) # entry.hash
    THEN ws'[entry.name] = ws[entry.name]
    ELSE /\ ws'[entry.name].exists
         /\ ws'[entry.name].bytes = objects[entry.hash].lines

\* C20: merge_index_into_workspace leaves every file that exists with other
\* content than the one recorded for it as it is, and makes every other file
\* of the index exist with the recorded content, also where its directory
\* did not exist.
C20_MergeIndexIntoWorkspace ==
    [][IndexMergedIntoWorkspace =>
          \A i \in 1..Len(MergedEntries) : WrittenOrKept(MergedEntries[i])]_vars

\* the same where the directory of every file of the index exists
C20_DirectoriesExist ==
    [][(/\ IndexMergedIntoWorkspace
        /\ \A i \in 1..Len(MergedEntries) : Parent(MergedEntries[i].name) \in dirs \cup {<<>>}) =>
          \A i \in 1..Len(MergedEntries) : WrittenOrKept(MergedEntries[i])]_vars

\* the step just taken was a checkout of another branch that, with nothing
\* uncommitted, read the tree of that branch into the index and went on to
\* restore_tree
TreeRestored ==
    /\ last'.cmd = "checkout"
    /\ last'.via = "clean"
    /\ HasCommitTree(objects, last'.theirs)
    /\ ReadTreeRun(Cur, objects[last'.theirs].tree_hash, FALSE, <<>>).res = "ok"

\* the file of a leaf holds the content of its blob
LeafWritten(w, leaf) == w[leaf.path].exists /\ w[leaf.path].bytes = objects[leaf.hash].lines

\* C21: restore_tree writes every regular and every executable file of the
\* tree, at any depth, over whatever the workspace held, and fails only on
\* a symlink or submodule record.
C21_RestoreTree ==
    [][(TreeRestored /\ \A k \in 1..Len(TheirLeaves) : TheirLeaves[k].mode \in {Blob, Exec}) =>
          /\ last'.res = "ok"
          /\ \A k \in 1..Len(TheirLeaves) : LeafWritten(ws', TheirLeaves[k])]_vars

\* the same for the trees whose leaves are all of mode 100644
C21_PlainFiles ==
    [][(TreeRestored /\ \A k \in 1..Len(TheirLeaves) : TheirLeaves[k].mode = Blob) =>
          /\ last'.res = "ok"
          /\ \A k \in 1..Len(TheirLeaves) : LeafWritten(ws', TheirLeaves[k])]_vars

\* the step just taken was `checkout b` with HEAD on b, or `checkout -b b` or
\* `branch b` with a branch b in refs/heads
InvalidStateCommand ==
    \/ last'.cmd = "checkout" /\ last'.arg = <<HEAD>>
    \/ last'.cmd \in {"checkout -b", "branch"} /\ refs[last'.arg[1]] # NoRef

\* the command failed and left HEAD, the refs, the index and the workspace
FailedWithoutEffect ==
    /\ last'.res # "ok"
    /\ HEAD' = HEAD /\ refs' = refs /\ index' = index /\ ws' = ws /\ dirs' = dirs

\* C22: `checkout b` with HEAD already on b, and `checkout -b b` and
\* `branch b` with an existing branch b, return an error and leave HEAD,
\* every ref, the index and the workspace as they were.
C22_InvalidState == [][InvalidStateCommand => FailedWithoutEffect]_vars

\* the same where the current branch has a commit
C22_BornBranch == [][(InvalidStateCommand /\ refs[HEAD] # NoRef) => FailedWithoutEffect]_vars

\* none of the three commands has an effect, whatever it returns
C22_NoEffect ==
    [][InvalidStateCommand =>
          HEAD' = HEAD /\ refs' = refs /\ index' = index /\ ws' = ws /\ dirs' = dirs]_vars

\* the step just taken was a three-way merge
ThreeWayStep == last'.cmd = "merge" /\ last'.via = "three_way"

\* the leaves of the two tips merged
OurLeaves == LeavesOf(objects, last'.ours)
MergedLeaves == LeavesOf(objects, last'.theirs)

\* path p is on both sides with differing ids, and the texts merge cleanly
MergesCleanly(p) ==
    /\ p \in LeafPaths(OurLeaves) /\ p \in LeafPaths(MergedLeaves)
    /\ LeafId(OurLeaves, p) # LeafId(MergedLeaves, p)
    /\ MergeTextOk(objects[LeafId(OurLeaves, p)].lines, objects[LeafId(MergedLeaves, p)].lines)

\* the text a clean merge of the two versions of p gives: the side that is
\* not empty
MergedText(p) ==
    IF objects[LeafId(OurLeaves, p)].lines = <<>>
    THEN objects[LeafId(MergedLeaves, p)].lines
    ELSE objects[LeafId(OurLeaves, p)].lines

\* C23: in a three-way merge, a path on both sides with differing ids whose
\* texts merge cleanly is staged once, with the merged text as its blob, is
\* not named as a conflict, and the merge can end with a merge commit.
C23_CleanTextMerge ==
    [][ThreeWayStep =>
          \A p \in Files :
              MergesCleanly(p) =>
                  /\ Cardinality({i \in 1..Len(index'.entries) : index'.entries[i].name = p}) = 1
                  /\ objects'[index'.entries[FindName(index'.entries, p)].hash].lines
                        = MergedText(p)
                  /\ \A i \in 1..Len(last'.msg) : last'.msg[i] # p
                  /\ (\A q \in Files : q \in LeafPaths(OurLeaves) \cap LeafPaths(MergedLeaves) =>
                         (LeafId(OurLeaves, q) = LeafId(MergedLeaves, q) \/ MergesCleanly(q)))
                        => last'.res = "ok"]_vars

\* what happens instead: both versions are staged and the merge ends in
\* MergeConflict
C23_BothVersionsStaged ==
    [][ThreeWayStep =>
          \A p \in Files :
              MergesCleanly(p) =>
                  /\ last'.res = "MergeConflict"
                  /\ Staged(index', p, LeafId(OurLeaves, p))
                  /\ Staged(index', p, LeafId(MergedLeaves, p))]_vars

\* the step just taken was a write-tree that succeeded
TreeWritten == last'.cmd = "write-tree" /\ last'.res = "ok"

\* the id write-tree returned for the index it read
WrittenTree == build_tree_recursive(index.entries, <<>>).hash

\* the (path, mode, id) triples of the index, and of the flattened tree
IndexTriples == {<<index.entries[i].name, index.entries[i].mode, index.entries[i].hash>> :
                    i \in 1..Len(index.entries)}
TreeTriples(objs, tree_hash) ==
    LET flat == FlattenTree(objs, read_tree(objs, tree_hash), <<>>)
    IN {<<flat[i].path, flat[i].mode, flat[i].hash>> : i \in 1..Len(flat)}

\* no two entries of the index have the same name
DistinctNames == \A i, j \in 1..Len(index.entries) :
                     index.entries[i].name = index.entries[j].name => i = j

\* C24: the tree write-tree builds from the index loses nothing: flattening
\* it gives exactly the entries of the index, with the same path, mode and
\* id, at any directory depth.
C24_WriteTreeLosesNothing ==
    [][TreeWritten /\ DistinctNames =>
          /\ CanFlatten(objects', read_tree(objects', WrittenTree))
          /\ TreeTriples(objects', WrittenTree) = IndexTriples]_vars

\* it holds for entries in the top directory and one directory below it
C24_TwoLevels ==
    [][TreeWritten /\ DistinctNames
         /\ (\A i \in 1..Len(index.entries) : Len(index.entries[i].name) <= 2) =>
          /\ CanFlatten(objects', read_tree(objects', WrittenTree))
          /\ TreeTriples(objects', WrittenTree) = IndexTriples]_vars

\* an entry two directories down is left out of the tree
C24_DeepEntryLost ==
    [][TreeWritten /\ DistinctNames =>
          \A i \in 1..Len(index.entries) :
              Len(index.entries[i].name) > 2 =>
                  \A t \in TreeTriples(objects', WrittenTree) : t[1] # index.entries[i].name]_vars

\* the entries of the index for regular files at or below path p
RegularBelow(p) ==
    {i \in 1..Len(index.entries) :
        IsPrefix(p, index.entries[i].name) /\ index.entries[i].mode \in {Blob, Exec}}

\* the regular files of the current commit at or below path p
CommittedBelow(p) ==
    {i \in 1..Len(LeavesOf(objects, refs[HEAD])) :
        /\ IsPrefix(p, LeavesOf(objects, refs[HEAD])[i].path)
        /\ LeavesOf(objects, refs[HEAD])[i].mode \in {Blob, Exec}}

\* the record of the current commit's trees at path p: on the top level, or
\* in directory d
RecordAt(p) ==
    LET top == read_tree(objects, objects[refs[HEAD]].tree_hash)
        at(tree, n) == CHOOSE i \in 1..Len(tree) : tree[i].path = <<n>>
    IN IF Len(p) = 1 THEN top[at(top, p[1])]
       ELSE LET sub == read_tree(objects, top[at(top, p[1])].hash)
            IN sub[at(sub, p[2])]

\* C25: after `checkout <path>` every regular file at or below the path has the
\* content the index records for it, and the index is unchanged; after
\* `checkout <commit> <path>` every such file has the content recorded in the
\* commit's tree, and the index holds exactly one entry for the path, with the
\* id the commit records.
C25_CheckoutPath ==
    [][/\ (last'.cmd = "checkout" /\ last'.via = "paths" /\ last'.res = "ok" =>
             /\ index' = index
             /\ \A i \in RegularBelow(last'.arg) :
                   /\ ws'[index.entries[i].name].exists
                   /\ ws'[index.entries[i].name].bytes = objects[index.entries[i].hash].lines)
       /\ (last'.cmd = "checkout HEAD" /\ last'.res = "ok" /\ CommittedBelow(last'.arg) # {} =>
             /\ \A i \in CommittedBelow(last'.arg) :
                   LET leaf == LeavesOf(objects, refs[HEAD])[i]
                   IN ws'[leaf.path].exists /\ ws'[leaf.path].bytes = objects[leaf.hash].lines
             /\ Cardinality({i \in 1..Len(index'.entries) :
                                index'.entries[i].name = last'.arg}) = 1
             /\ index'.entries[FindName(index'.entries, last'.arg)].hash
                   = RecordAt(last'.arg).hash)]_vars

\* for files that are not executable both forms restore the content, while
\* the index holds no entry for a directory
C25_PlainFiles ==
    [][/\ (last'.cmd = "checkout" /\ last'.via = "paths" /\ last'.res = "ok"
              /\ (\A i \in 1..Len(index.entries) : index.entries[i].mode # Tree) =>
             /\ index' = index
             /\ \A i \in RegularBelow(last'.arg) :
                   index.entries[i].mode = Blob =>
                       /\ ws'[index.entries[i].name].exists
                       /\ ws'[index.entries[i].name].bytes = objects[index.entries[i].hash].lines)
       /\ (last'.cmd = "checkout HEAD" /\ last'.res = "ok" /\ CommittedBelow(last'.arg) # {} =>
             /\ \A i \in CommittedBelow(last'.arg) :
                   LET leaf == LeavesOf(objects, refs[HEAD])[i]
                   IN leaf.mode = Blob =>
                         ws'[leaf.path].exists /\ ws'[leaf.path].bytes = objects[leaf.hash].lines
             /\ Cardinality({i \in 1..Len(index'.entries) :
                                index'.entries[i].name = last'.arg}) = 1
             /\ index'.entries[FindName(index'.entries, last'.arg)].hash
                   = RecordAt(last'.arg).hash)]_vars

\* the records of a tree have distinct names in ascending path order
Canonical(entries) ==
    \A i, j \in 1..Len(entries) : i < j => PathLess(entries[i].path, entries[j].path)

\* the tree made by the merge just taken: the tree of the new tip
MergeTree == objects'[objects'[refs'[HEAD']].tree_hash]

\* the step just taken was a merge that made a merge commit
MergeCommitted == ThreeWayStep /\ refs'[HEAD'] \notin DOMAIN objects

\* C26: every tree written by write-tree or by a successful merge has
\* pairwise distinct names in ascending path-lexicographic order.
C26_CanonicalTrees ==
    \A h \in TreeIds(objects) : Canonical(objects[h].entries)

\* the trees write-tree and commit write are canonical
C26_WriteTreeCanonical ==
    [][last'.cmd \in {"write-tree", "commit"} =>
          \A h \in TreeIds(objects') \ TreeIds(objects) : Canonical(objects'[h].entries)]_vars

\* the trees of merge commits are the only ones out of order
C26_OnlyMergeTrees ==
    [][~MergeCommitted =>
          \A h \in TreeIds(objects') \ TreeIds(objects) : Canonical(objects'[h].entries)]_vars

\* the step just taken was a merge that ended in a conflict
MergeConflicted == last'.cmd = "merge" /\ last'.res = "MergeConflict"

\* C27: when a merge ends in conflict the operation fails and only the index
\* records progress: every ref and HEAD keep their values, and no tree or
\* commit object is created.
C27_ConflictLeavesRefs ==
    [][MergeConflicted =>
          /\ refs' = refs
          /\ HEAD' = HEAD
          /\ ws' = ws /\ dirs' = dirs
          /\ \A h \in DOMAIN objects : h \in DOMAIN objects' /\ objects'[h] = objects[h]
          /\ \A h \in DOMAIN objects' \ DOMAIN objects : objects'[h].kind = "blob"]_vars

\* a merge of diverged tips has ended in conflict, with both versions of a
\* path staged in the index and a blob written for the conflict text
C27_Witness ==
    /\ last.cmd = "merge" /\ last.res = "MergeConflict" /\ last.via = "three_way"
    /\ last.msg # <<>>
    /\ refs[HEAD] = last.ours
    /\ \E i, j \in 1..Len(index.entries) :
          i # j /\ index.entries[i].name = index.entries[j].name

\* the step just taken was `checkout <branch>` of a branch in refs/heads, and
\* it returned an error
SwitchFailed ==
    /\ last'.cmd = "checkout"
    /\ Len(last'.arg) = 1 /\ last'.arg[1] \in Branches
    /\ refs[last'.arg[1]] # NoRef
    /\ last'.res # "ok"

\* C28: a branch switch that returns an error at any step leaves HEAD naming
\* the branch it named before, on the clean path and on the path with
\* uncommitted changes.
C28_FailedSwitchKeepsHead ==
    [][SwitchFailed => HEAD' = HEAD]_vars

\* on the path with uncommitted changes HEAD is written last, and a failure
\* leaves it
C28_DirtyPath ==
    [][SwitchFailed /\ last'.via # "clean" => HEAD' = HEAD]_vars

\* the last command was a merge of T that succeeded by the path `via`, and
\* the step just taken is `merge T` once more
MergeRepeated(via) ==
    /\ last.cmd = "merge" /\ last.res = "ok" /\ last.via = via
    /\ last'.cmd = "merge" /\ last'.arg = last.arg

\* the repeated merge found nothing to merge
NothingMerged ==
    /\ last'.res = "ok"
    /\ objects' = objects
    /\ refs' = refs /\ HEAD' = HEAD
    /\ index' = index
    /\ ws' = ws /\ dirs' = dirs

\* C29: after `merge T` has succeeded, by fast-forward or with a merge commit,
\* an immediately repeated `merge T` creates no commit and leaves the branch
\* ref, the index and the workspace unchanged.
C29_MergeIdempotent ==
    [][MergeRepeated("fast_forward") \/ MergeRepeated("three_way") => NothingMerged]_vars

\* after a fast-forward the repeated merge finds the branch up to date
C29_AfterFastForward ==
    [][MergeRepeated("fast_forward") => NothingMerged /\ last'.via = "up_to_date"]_vars

\* after a merge commit the repeated merge is a three-way merge once more
C29_AfterMergeCommit ==
    [][MergeRepeated("three_way") => last'.via = "three_way"]_vars

\* path p is on both sides of the merge just taken, with differing ids
Conflicting(p) ==
    /\ p \in LeafPaths(OurLeaves) /\ p \in LeafPaths(MergedLeaves)
    /\ LeafId(OurLeaves, p) # LeafId(MergedLeaves, p)

\* the two versions of p, and the ranges the conflict message gives for them
OurText(p) == objects[LeafId(OurLeaves, p)].lines
MergedVersion(p) == objects[LeafId(MergedLeaves, p)].lines
ReportedRanges(p) == diff_text(OurText(p), MergedVersion(p))

\* the pieces split("\n") gives for the longer version
LongerCount(p) ==
    IF Len(OurText(p)) > Len(MergedVersion(p))
    THEN Len(SplitLines(OurText(p))) ELSE Len(SplitLines(MergedVersion(p)))

\* a reported range v, printed as v[1] alone or as [v[1], v[Len(v)]], lies
\* within 1..n in ascending order
WellFormedRange(v, n) == 1 <= v[1] /\ v[1] <= v[Len(v)] /\ v[Len(v)] <= n

\* C30: every line range a merge reports for a conflicting path, a single
\* line n or a pair [s, e], has 1 <= s <= e with e within the line count of
\* the longer version, also when the versions differ in their number of lines.
C30_RangesWellFormed ==
    [][ThreeWayStep /\ last'.res = "MergeConflict" =>
          \A p \in Files :
              Conflicting(p) =>
                  \A k \in 1..Len(ReportedRanges(p)) :
                      WellFormedRange(ReportedRanges(p)[k], LongerCount(p))]_vars

\* the ranges are well-formed when the two versions have the same number of
\* lines
C30_SameLineCount ==
    [][ThreeWayStep /\ last'.res = "MergeConflict" =>
          \A p \in Files :
              Conflicting(p) /\ Len(OurText(p)) = Len(MergedVersion(p)) =>
                  \A k \in 1..Len(ReportedRanges(p)) :
                      WellFormedRange(ReportedRanges(p)[k], LongerCount(p))]_vars

\* when they differ, the last range runs from one past the shorter version to
\* one before its end
C30_TailRange ==
    [][ThreeWayStep /\ last'.res = "MergeConflict" =>
          \A p \in Files :
              Conflicting(p) /\ Len(OurText(p)) # Len(MergedVersion(p)) =>
                  LET v == ReportedRanges(p)[Len(ReportedRanges(p))]
                  IN Len(v) = 2 /\ v[1] = v[2] + 2]_vars

====
